---- MODULE Spec2Model ----
(***************************************************************************)
(* A model of the OptiTrack rigid body tracker.                            *)
(*                                                                         *)
(* PositionCalculator (src/position_calculations.py) is a set of pure      *)
(* functions.  Each one is an operator of this module that computes what   *)
(* the code computes, step by step.  A run starts with the values a caller *)
(* holds (given), drawn from a bounded set, and each action is one call:   *)
(* it draws what is left of the arguments, applies the operator and        *)
(* appends the call, with its arguments, its local variables and its       *)
(* return value, to calls.                                                 *)
(*                                                                         *)
(* Arithmetic.  quaternion_to_rotation_matrix, calculate_updated_stylus_-  *)
(* position and calculate_position_error compute with numpy arrays; the    *)
(* model computes the same expressions over the rationals, exactly: an     *)
(* array is a tuple of integer numerators over one common denominator and  *)
(* a square root is kept by its square.  The rounding of the binary64      *)
(* operations inside these array computations is not modelled.             *)
(*                                                                         *)
(* convert_to_millimeters and convert_to_meters apply one binary64         *)
(* operation to each component (pos * 1000, pos / 1000).  The model        *)
(* computes that operation bit for bit: a binary64 number is a sign, a     *)
(* 53-bit significand held in three 18-bit limbs and an exponent, and the  *)
(* product and the quotient are rounded to nearest, ties to even.          *)
(* Overflow, underflow and subnormal numbers are outside the input sets.   *)
(***************************************************************************)
EXTENDS Integers, Sequences, FiniteSets, TLC

VARIABLES
    given,       \* what the caller holds: arguments, constructor arguments
    calls,       \* the calls made, each with its arguments and its return
    source,      \* the reference catalog file
    tracker,     \* the RigidBodyTracker object
    visualizer,  \* the RealtimeVisualizer / SimpleRealtimeViz object
    threads      \* the clock, and where each thread stands in its code

vars == <<given, calls, source, tracker, visualizer, threads>>

\* The objects of the application; a call of a PositionCalculator method
\* reads none of them.
objects == <<source, tracker, visualizer>>

\* No file, no tracker and no visualizer: the calculator alone.
NotBuilt == [built |-> FALSE]

CalculatorAlone ==
    /\ source = NotBuilt
    /\ tracker = NotBuilt
    /\ visualizer = NotBuilt
    /\ threads = NotBuilt

\* ------------------------------------------------------------------ bounds

\* A position handed to the calculator is an integer vector with at most
\* one non-zero coordinate, of magnitude at most MaxCoord.
MaxCoord == 1

\* An orientation handed to the calculator is an integer quaternion whose
\* squared norm is at most MaxNorm2 (the zero quaternion included).
MaxNorm2 == 3

\* A rescaled orientation is k times a quaternion, 0 < |k| <= MaxScale.
MaxScale == 2

\* A component handed to the unit conversions is an integer of magnitude
\* at most MaxInt, or 1.5 plus at most MaxUlps units in the last place of a
\* binary64 number (2^-52), or 1.5 plus at most MaxFloatUlps units in the
\* last place of a binary32 number (2^-23), the precision of a pose sample.
MaxInt == 2
MaxUlps == 22
MaxFloatUlps == 1

\* ------------------------------------------------------- exact arithmetic

Abs(i) == IF i < 0 THEN -i ELSE i

RECURSIVE GCD(_, _)
GCD(a, b) == IF b = 0 THEN a ELSE GCD(b, a % b)

\* The fraction n/d (d # 0) in lowest terms with a positive denominator.
Rat(n, d) ==
    LET g == GCD(Abs(n), Abs(d))
        s == IF d < 0 THEN -1 ELSE 1
    IN  <<(s * n) \div g, (s * d) \div g>>

\* A real array is kept as integer numerators over one common positive
\* denominator: [num |-> <<...>>, den |-> d] is the array num / d.
\* np.array(list) of a list of integers:
NpArray(list) == [num |-> list, den |-> 1]

\* array.tolist(): the numbers of the array, each a fraction in lowest terms.
ToList(array) == [i \in 1..Len(array.num) |-> Rat(array.num[i], array.den)]

\* u - v and u + v for two 3-arrays.
VecSub(u, v) ==
    [num |-> << u.num[1] * v.den - v.num[1] * u.den,
                u.num[2] * v.den - v.num[2] * u.den,
                u.num[3] * v.den - v.num[3] * u.den >>,
     den |-> u.den * v.den]

\* Mutant of VecAdd: the first summand (the new tracker position) is lost.
VecAddSecondOnly(u, v) == v

VecAdd(u, v) ==
    [num |-> << u.num[1] * v.den + v.num[1] * u.den,
                u.num[2] * v.den + v.num[2] * u.den,
                u.num[3] * v.den + v.num[3] * u.den >>,
     den |-> u.den * v.den]

\* A 3x3 matrix is kept the same way: [num |-> <<row, row, row>>, den |-> d].
\* np.eye(3)
Eye3 == [num |-> << <<1, 0, 0>>, <<0, 1, 0>>, <<0, 0, 1>> >>, den |-> 1]

\* Mutant of Transpose: the matrix is used as it is.
TransposeForgotten(M) == M

\* M.T
Transpose(M) ==
    [num |-> << << M.num[1][1], M.num[2][1], M.num[3][1] >>,
                << M.num[1][2], M.num[2][2], M.num[3][2] >>,
                << M.num[1][3], M.num[2][3], M.num[3][3] >> >>,
     den |-> M.den]

\* M @ v
MatVec(M, v) ==
    [num |-> << M.num[1][1] * v.num[1] + M.num[1][2] * v.num[2]
                    + M.num[1][3] * v.num[3],
                M.num[2][1] * v.num[1] + M.num[2][2] * v.num[2]
                    + M.num[2][3] * v.num[3],
                M.num[3][1] * v.num[1] + M.num[3][2] * v.num[2]
                    + M.num[3][3] * v.num[3] >>,
     den |-> M.den * v.den]

\* ------------------------------------------------------ PositionCalculator

\* Variants of the rotation matrix formula for the mutants below: one is the
\* numerator of 1 (norm2 when the components are normalised), den the
\* denominator, s the sign of the w terms, t the sign of the w*z term of
\* the first row.
MatrixVariant(x, y, z, w, one, den, s, t) ==
    [num |->
        << << one - 2 * (y * y + z * z), 2 * (x * y - t * w * z),
              2 * (x * z + s * w * y) >>,
           << 2 * (x * y + s * w * z), one - 2 * (x * x + z * z),
              2 * (y * z - s * w * x) >>,
           << 2 * (x * z - s * w * y), 2 * (y * z + s * w * x),
              one - 2 * (x * x + y * y) >> >>,
     den |-> den]

Norm2Of(q) ==
    q.num[1] * q.num[1] + q.num[2] * q.num[2] + q.num[3] * q.num[3]
        + q.num[4] * q.num[4]

\* Mutant: the components are not normalised.
quaternion_to_rotation_matrix_unnormalised(q) ==
    IF Norm2Of(q) = 0 THEN Eye3
    ELSE MatrixVariant(q.num[1], q.num[2], q.num[3], q.num[4], 1, 1, 1, 1)

\* Mutant: the w terms have the opposite sign (the transposed matrix, a
\* clockwise rotation).
quaternion_to_rotation_matrix_clockwise(q) ==
    IF Norm2Of(q) = 0 THEN Eye3
    ELSE MatrixVariant(q.num[1], q.num[2], q.num[3], q.num[4],
                       Norm2Of(q), Norm2Of(q), -1, -1)

\* Mutant: R[0][1] is 2*(x*y + w*z).
quaternion_to_rotation_matrix_sign_slip(q) ==
    IF Norm2Of(q) = 0 THEN Eye3
    ELSE MatrixVariant(q.num[1], q.num[2], q.num[3], q.num[4],
                       Norm2Of(q), Norm2Of(q), 1, -1)

\* Mutant: a zero quaternion yields the zero matrix.
quaternion_to_rotation_matrix_zero_matrix(q) ==
    IF Norm2Of(q) = 0
    THEN [num |-> << <<0, 0, 0>>, <<0, 0, 0>>, <<0, 0, 0>> >>, den |-> 1]
    ELSE MatrixVariant(q.num[1], q.num[2], q.num[3], q.num[4],
                       Norm2Of(q), Norm2Of(q), 1, 1)

\* quaternion_to_rotation_matrix(q), q an array [x, y, z, w] of integers.
\* norm is the root of norm2 = x*x + y*y + z*z + w*w, so it is 0 exactly
\* when norm2 is, and a product of two normalised components, such as
\* (x/norm) * (y/norm), is x*y / norm2: every entry of R is a fraction over
\* norm2, and 1 is norm2 / norm2.
quaternion_to_rotation_matrix(q) ==
    LET x == q.num[1]
        y == q.num[2]
        z == q.num[3]
        w == q.num[4]
        norm2 == x * x + y * y + z * z + w * w
    IN  IF norm2 = 0
        THEN Eye3
        ELSE [num |->
                << << norm2 - 2 * (y * y + z * z), 2 * (x * y - w * z),
                      2 * (x * z + w * y) >>,
                   << 2 * (x * y + w * z), norm2 - 2 * (x * x + z * z),
                      2 * (y * z - w * x) >>,
                   << 2 * (x * z - w * y), 2 * (y * z + w * x),
                      norm2 - 2 * (x * x + y * y) >> >>,
              den |-> norm2]

\* The body of calculate_updated_stylus_position: its local variables when
\* it returns, and the value it returns.
StylusFrame(reference_position, reference_rotation, reference_stylus_pos, new_position, new_rotation) ==
    LET ref_pos == NpArray(reference_position)
        ref_rot == NpArray(reference_rotation)
        ref_stylus == NpArray(reference_stylus_pos)
        new_pos == NpArray(new_position)
        new_rot == NpArray(new_rotation)
        R_ref == quaternion_to_rotation_matrix(ref_rot)
        R_new == quaternion_to_rotation_matrix(new_rot)
        offset_in_ref_frame == VecSub(ref_stylus, ref_pos)
        offset_local == MatVec(Transpose(R_ref), offset_in_ref_frame)
        offset_in_new_frame == MatVec(R_new, offset_local)
        new_stylus_pos == VecAdd(new_pos, offset_in_new_frame)
    IN  [R_ref |-> R_ref, R_new |-> R_new,
         offset_in_ref_frame |-> offset_in_ref_frame,
         return |-> ToList(new_stylus_pos)]

\* calculate_updated_stylus_position(...): the updated stylus position.
calculate_updated_stylus_position(reference_position, reference_rotation, reference_stylus_pos, new_position, new_rotation) ==
    StylusFrame(reference_position, reference_rotation,
                reference_stylus_pos, new_position, new_rotation).return

\* --------------------------------------------------------- position error

\* np.sqrt(s) for s >= 0: the non-negative root, kept by its square.
NpSqrt(s) == [square |-> s]

\* np.sum(error**2)
SumOfSquares(array) ==
    Rat(array.num[1] * array.num[1] + array.num[2] * array.num[2]
            + array.num[3] * array.num[3], array.den * array.den)

\* Mutant: the magnitude is taken from np.sum(error), without the squares.
calculate_position_error_unsquared(calculated_position, actual_position) ==
    LET error == VecSub(NpArray(actual_position), NpArray(calculated_position))
        total == error.num[1] + error.num[2] + error.num[3]
    IN  [x_error |-> ToList(error)[1],
         y_error |-> ToList(error)[2],
         z_error |-> ToList(error)[3],
         magnitude |-> NpSqrt(Rat(total * total, error.den * error.den))]

\* Mutant: error = calc_pos - actual_pos.
calculate_position_error_reversed(calculated_position, actual_position) ==
    LET error == VecSub(NpArray(calculated_position), NpArray(actual_position))
    IN  [x_error |-> ToList(error)[1],
         y_error |-> ToList(error)[2],
         z_error |-> ToList(error)[3],
         magnitude |-> NpSqrt(SumOfSquares(error))]

\* calculate_position_error(calculated_position, actual_position)
calculate_position_error(calculated_position, actual_position) ==
    LET calc_pos == NpArray(calculated_position)
        actual_pos == NpArray(actual_position)
        error == VecSub(actual_pos, calc_pos)
        error_magnitude == NpSqrt(SumOfSquares(error))
    IN  [x_error |-> ToList(error)[1],
         y_error |-> ToList(error)[2],
         z_error |-> ToList(error)[3],
         magnitude |-> error_magnitude]

\* ------------------------------------------------------ binary64 numbers

\* A binary64 number is [neg, mant, exp]: mant = <<h, m, l>> holds the
\* 53-bit significand h * LimbBase^2 + m * LimbBase + l in three 18-bit
\* limbs, with 2^16 <= h < 2^17, and the value is (+/-) mant * 2^exp.
\* Zero has the significand <<0, 0, 0>>.
LimbBase == 2 ^ 18

ZeroMant == <<0, 0, 0>>

\* The next significand up; exp grows by one when it reaches 2^53.
NextUp(d) ==
    LET h == d.mant[1]
        m == d.mant[2]
        l == d.mant[3]
    IN  IF l + 1 < LimbBase
        THEN [neg |-> d.neg, mant |-> <<h, m, l + 1>>, exp |-> d.exp]
        ELSE IF m + 1 < LimbBase
        THEN [neg |-> d.neg, mant |-> <<h, m + 1, 0>>, exp |-> d.exp]
        ELSE IF h + 1 < 2 ^ 17
        THEN [neg |-> d.neg, mant |-> <<h + 1, 0, 0>>, exp |-> d.exp]
        ELSE [neg |-> d.neg, mant |-> <<2 ^ 16, 0, 0>>, exp |-> d.exp + 1]

\* The exact product mant * 1000, in four limbs (62 or 63 bits).
Product1000(mant) ==
    LET c0 == mant[3] * 1000
        c1 == mant[2] * 1000 + c0 \div LimbBase
        c2 == mant[1] * 1000 + c1 \div LimbBase
    IN  << c2 \div LimbBase, c2 % LimbBase, c1 % LimbBase, c0 % LimbBase >>

\* The number of bits of the product beyond the 53 a significand holds.
ExcessBits(p) == IF p[1] >= 2 ^ 8 THEN 10 ELSE 9

\* pos * 1000 for a binary64 pos: the exact product rounded to 53 bits, to
\* nearest, ties to even.
Times1000(d) ==
    IF d.mant = ZeroMant
    THEN d
    ELSE LET p == Product1000(d.mant)
             s == ExcessBits(p)
             up == 2 ^ (18 - s)
             low == p[4] % (2 ^ s)
             kept == << (p[2] \div (2 ^ s)) + (p[1] % (2 ^ s)) * up,
                        (p[3] \div (2 ^ s)) + (p[2] % (2 ^ s)) * up,
                        (p[4] \div (2 ^ s)) + (p[3] % (2 ^ s)) * up >>
             down == [neg |-> d.neg, mant |-> kept, exp |-> d.exp + s]
             half == 2 ^ (s - 1)
         IN  IF low > half \/ (low = half /\ kept[3] % 2 = 1)
             THEN NextUp(down)
             ELSE down

\* pos / 1000 for a binary64 pos: the quotient to 53 bits, rounded to
\* nearest, ties to even.  The significand is shifted left by t bits so
\* that the integer quotient has exactly 53 bits.
DividedBy1000(d) ==
    IF d.mant = ZeroMant
    THEN d
    ELSE LET h == d.mant[1]
             m == d.mant[2]
             l == d.mant[3]
             t == IF h < 1000 * (2 ^ 7) THEN 10 ELSE 9
             cut == 2 ^ (18 - t)
             d1 == h \div cut
             d2 == (h % cut) * (2 ^ t) + m \div cut
             d3 == (m % cut) * (2 ^ t) + l \div cut
             d4 == (l % cut) * (2 ^ t)
             c2 == (d1 % 1000) * LimbBase + d2
             c3 == (c2 % 1000) * LimbBase + d3
             c4 == (c3 % 1000) * LimbBase + d4
             q == << c2 \div 1000, c3 \div 1000, c4 \div 1000 >>
             r == c4 % 1000
             down == [neg |-> d.neg, mant |-> q, exp |-> d.exp - t]
         IN  IF 2 * r > 1000 \/ (2 * r = 1000 /\ q[3] % 2 = 1)
             THEN NextUp(down)
             ELSE down

\* Mutant of convert_to_meters: the components are multiplied by 1000.
convert_to_meters_multiplies(position_millimeters) ==
    [i \in 1..Len(position_millimeters) |->
        Times1000(position_millimeters[i])]

\* convert_to_millimeters(position_meters): [pos * 1000 for pos in ...]
convert_to_millimeters(position_meters) ==
    [i \in 1..Len(position_meters) |-> Times1000(position_meters[i])]

\* convert_to_meters(position_millimeters): [pos / 1000 for pos in ...]
convert_to_meters(position_millimeters) ==
    [i \in 1..Len(position_millimeters) |->
        DividedBy1000(position_millimeters[i])]

\* The binary64 number h * 2^e * 2^36 for an integer h, 0 < h < 2^17.
RECURSIVE Normalised(_, _, _)
Normalised(neg, h, e) ==
    IF h < 2 ^ 16
    THEN Normalised(neg, 2 * h, e - 1)
    ELSE [neg |-> neg, mant |-> <<h, 0, 0>>, exp |-> e]

\* The binary64 number that holds the integer i, |i| < 2^17.
FromInt(i) ==
    IF i = 0
    THEN [neg |-> FALSE, mant |-> ZeroMant, exp |-> 0]
    ELSE Normalised(i < 0, IF i < 0 THEN -i ELSE i, -36)

\* 1.5 + k * 2^-52
NearOneAndAHalf(k) ==
    [neg |-> FALSE, mant |-> <<3 * (2 ^ 15), 0, k>>, exp |-> -52]

\* 1.5 + j * 2^-23, a number a binary32 pose sample can hold.
FloatNearOneAndAHalf(j) ==
    [neg |-> FALSE, mant |-> <<3 * (2 ^ 15), j * (2 ^ 11), 0>>, exp |-> -52]

\* ------------------------------------------------------------ input sets

Vectors ==
    {v \in [1..3 -> -MaxCoord..MaxCoord] :
        Cardinality({i \in 1..3 : v[i] # 0}) <= 1}

Quaternions ==
    {q \in [1..4 -> -MaxNorm2..MaxNorm2] :
        q[1] * q[1] + q[2] * q[2] + q[3] * q[3] + q[4] * q[4] <= MaxNorm2}

Scalars == (-MaxScale..MaxScale) \ {0}

\* The example of the calculator's documentation: a tracker at the origin
\* with the identity orientation [0, 0, 0, 1] and a stylus 10 mm along X;
\* the tracker then moves 100 mm along Z, or turns a quarter turn about Z.
ExamplePosition == <<0, 0, 0>>
ExampleRotation == <<0, 0, 0, 1>>
ExampleStylusPos == <<10, 0, 0>>
ExampleDisplacement == <<0, 0, 100>>
ExampleQuarterTurn == <<0, 0, 1, 1>>

\* What a caller holds before it calls calculate_updated_stylus_position:
\* the reference tracker pose and the stylus position at the reference.
Reference(P, Q, T) ==
    [reference_position |-> P, reference_rotation |-> Q,
     reference_stylus_pos |-> T]

References ==
    {Reference(P, Q, T) : P \in Vectors, Q \in Quaternions, T \in Vectors}
        \cup {Reference(ExamplePosition, ExampleRotation, ExampleStylusPos)}

Displacements == Vectors \cup {ExampleDisplacement}

IntVecAdd(u, v) == <<u[1] + v[1], u[2] + v[2], u[3] + v[3]>>
IntVecSub(u, v) == <<u[1] - v[1], u[2] - v[2], u[3] - v[3]>>
Scaled(k, q) == <<k * q[1], k * q[2], k * q[3], k * q[4]>>

\* The arguments of one call of calculate_updated_stylus_position.
StylusArgs(ref, N, Qn) ==
    [reference_position |-> ref.reference_position,
     reference_rotation |-> ref.reference_rotation,
     reference_stylus_pos |-> ref.reference_stylus_pos,
     new_position |-> N, new_rotation |-> Qn]

\* The components the unit conversions are applied to.
Doubles ==
    {FromInt(i) : i \in -MaxInt..MaxInt}
        \cup {NearOneAndAHalf(k) : k \in 0..MaxUlps}
        \cup {FloatNearOneAndAHalf(j) : j \in 1..MaxFloatUlps}

\* The positions calculate_position_error compares: every [x, y, z] with
\* integer coordinates of magnitude at most MaxCoord.
Positions == [1..3 -> -MaxCoord..MaxCoord]

\* ---------------------------------------------------------------- actions

NoLocals == [none |-> TRUE]

Call(fn, args, ret, locals) ==
    [fn |-> fn, args |-> args, ret |-> ret, locals |-> locals]

\* The record of one call of calculate_updated_stylus_position.
StylusCall(a) ==
    LET frame == StylusFrame(a.reference_position, a.reference_rotation,
                             a.reference_stylus_pos, a.new_position,
                             a.new_rotation)
    IN  Call("calculate_updated_stylus_position", a, frame.return, frame)

InitReference ==
    /\ given \in References
    /\ calls = <<>>
    /\ CalculatorAlone

\* The tracker has been translated and has kept its orientation.
CallTranslated ==
    /\ calls = <<>>
    /\ \E D \in Displacements :
         calls' = <<StylusCall(StylusArgs(given,
                        IntVecAdd(given.reference_position, D),
                        given.reference_rotation))>>
    /\ UNCHANGED <<given, objects, threads>>

\* The tracker has turned in place.
CallRotated ==
    /\ calls = <<>>
    /\ \E Qn \in Quaternions :
         calls' = <<StylusCall(StylusArgs(given, given.reference_position,
                                          Qn))>>
    /\ UNCHANGED <<given, objects, threads>>

\* The tracker is where it was and reports a multiple of the reference
\* quaternion.
CallRescaled ==
    /\ calls = <<>>
    /\ \E k \in Scalars :
         calls' = <<StylusCall(StylusArgs(given, given.reference_position,
                        Scaled(k, given.reference_rotation)))>>
    /\ UNCHANGED <<given, objects, threads>>

\* quaternion_to_rotation_matrix applied to the reference orientation, as
\* calculate_mapped_point applies it to a tracker orientation.
CallRotationMatrix ==
    /\ calls = <<>>
    /\ calls' = <<Call("quaternion_to_rotation_matrix",
                       [q |-> given.reference_rotation],
                       quaternion_to_rotation_matrix(
                           NpArray(given.reference_rotation)),
                       NoLocals)>>
    /\ UNCHANGED <<given, objects, threads>>

NextSameOrientation ==
    \/ CallTranslated
    \/ CallRescaled
    \/ CallRotationMatrix

SpecSameOrientation == InitReference /\ [][NextSameOrientation]_vars

\* The runs of a tracker that turns in place start from a reference whose
\* position has no negative coordinate.
InitPivot ==
    /\ given \in References
    /\ \A i \in 1..3 : given.reference_position[i] >= 0
    /\ calls = <<>>
    /\ CalculatorAlone

NextRotated == CallRotated

SpecRotated == InitPivot /\ [][NextRotated]_vars

\* What a caller of the unit conversions holds: a position [x, y, z].
InitPosition ==
    /\ given \in [position : [1..3 -> Doubles]]
    /\ calls = <<>>
    /\ CalculatorAlone

\* A caller converts the position it holds to millimeters.
CallConvertToMillimeters ==
    /\ calls = <<>>
    /\ calls' = <<Call("convert_to_millimeters",
                       [position_meters |-> given.position],
                       convert_to_millimeters(given.position), NoLocals)>>
    /\ UNCHANGED <<given, objects, threads>>

\* A caller converts to meters the position it holds, or the millimeters
\* the call before has returned.
CallConvertToMeters ==
    /\ \/ /\ calls = <<>>
          /\ calls' = <<Call("convert_to_meters",
                             [position_millimeters |-> given.position],
                             convert_to_meters(given.position), NoLocals)>>
       \/ /\ Len(calls) = 1
          /\ calls[1].fn = "convert_to_millimeters"
          /\ calls' = Append(calls,
                          Call("convert_to_meters",
                               [position_millimeters |-> calls[1].ret],
                               convert_to_meters(calls[1].ret), NoLocals))
    /\ UNCHANGED <<given, objects, threads>>

NextUnits ==
    \/ CallConvertToMillimeters
    \/ CallConvertToMeters

SpecUnits == InitPosition /\ [][NextUnits]_vars

\* What a caller of calculate_position_error holds: the position it has
\* computed and the position it has measured.
InitPositions ==
    /\ given \in [calculated_position : Positions, actual_position : Positions]
    /\ calls = <<>>
    /\ CalculatorAlone

ErrorCall(calculated_position, actual_position) ==
    Call("calculate_position_error",
         [calculated_position |-> calculated_position,
          actual_position |-> actual_position],
         calculate_position_error(calculated_position, actual_position),
         NoLocals)

\* The caller passes the computed position first and the measured second.
CallPositionError ==
    /\ calls = <<>>
    /\ calls' = <<ErrorCall(given.calculated_position, given.actual_position)>>
    /\ UNCHANGED <<given, objects, threads>>

\* A further call with the two positions in the other order.
CallPositionErrorSwapped ==
    /\ Len(calls) = 1
    /\ calls[1].fn = "calculate_position_error"
    /\ calls' = Append(calls,
                    ErrorCall(given.actual_position, given.calculated_position))
    /\ UNCHANGED <<given, objects, threads>>

NextError ==
    \/ CallPositionError
    \/ CallPositionErrorSwapped

SpecError == InitPositions /\ [][NextError]_vars

\* ------------------------------------------------------ reference catalog

\* A file holds at most MaxRows data rows.
MaxRows == 2

\* Python's None, and a value that is not None.  A field that holds None
\* or a list holds None or Some(list).
None == [none |-> TRUE]
Some(v) == [value |-> v]

\* No exception has been raised.
NoException == "no exception"

\* A string is the sequence of its characters.
UpperChar(c) ==
    CASE c = "l" -> "L"
      [] c = "m" -> "M"
      [] OTHER -> c

\* str.upper()
str_upper(string) == [i \in 1..Len(string) |-> UpperChar(string[i])]

RECURSIVE str_lstrip(_)
str_lstrip(string) ==
    IF string # <<>> /\ Head(string) = " "
    THEN str_lstrip(Tail(string))
    ELSE string

RECURSIVE str_rstrip(_)
str_rstrip(string) ==
    IF string # <<>> /\ string[Len(string)] = " "
    THEN str_rstrip(SubSeq(string, 1, Len(string) - 1))
    ELSE string

\* str.strip()
str_strip(string) == str_rstrip(str_lstrip(string))

\* A cell of the file: text that float() parses to a number, or text that
\* float() rejects with ValueError.
Cell(v) == [number |-> TRUE, value |-> v]
BadCell == [number |-> FALSE, value |-> 0]

\* A data row of the file, by the columns csv.DictReader gives it.
Row(label, femur_pos, femur_rot_wxyz, stylus_pos) ==
    [Point_Number |-> label,
     Femur_Pos_X_mm |-> femur_pos[1],
     Femur_Pos_Y_mm |-> femur_pos[2],
     Femur_Pos_Z_mm |-> femur_pos[3],
     Femur_Rot_W |-> femur_rot_wxyz[1],
     Femur_Rot_X |-> femur_rot_wxyz[2],
     Femur_Rot_Y |-> femur_rot_wxyz[3],
     Femur_Rot_Z |-> femur_rot_wxyz[4],
     Stylus_Pos_X_mm |-> stylus_pos[1],
     Stylus_Pos_Y_mm |-> stylus_pos[2],
     Stylus_Pos_Z_mm |-> stylus_pos[3]]

Cells(list) == [i \in 1..Len(list) |-> Cell(list[i])]

\* The file is absent, or it holds a sequence of rows.
MissingFile == [exists |-> FALSE, rows |-> <<>>]
File(rows) == [exists |-> TRUE, rows |-> rows]

\* float() of each cell of a list raises ValueError on the first bad one.
FloatsRaise(cells) == \E i \in 1..Len(cells) : ~cells[i].number
Floats(cells) == [i \in 1..Len(cells) |-> cells[i].value]

FemurPosCells(row) ==
    <<row.Femur_Pos_X_mm, row.Femur_Pos_Y_mm, row.Femur_Pos_Z_mm>>

\* The rotation is read W first.
FemurRotCells(row) ==
    <<row.Femur_Rot_W, row.Femur_Rot_X, row.Femur_Rot_Y, row.Femur_Rot_Z>>

StylusPosCells(row) ==
    <<row.Stylus_Pos_X_mm, row.Stylus_Pos_Y_mm, row.Stylus_Pos_Z_mm>>

\* The loop of load_reference_data over the rows left: every row is parsed
\* whole and stored under its Point_Number, a later row replacing an
\* earlier one of the same label.
RECURSIVE ReadReferenceRows(_, _)
ReadReferenceRows(rows, reference_data) ==
    IF rows = <<>>
    THEN [raised |-> NoException, reference_data |-> reference_data]
    ELSE LET row == Head(rows)
         IN  IF \/ FloatsRaise(FemurPosCells(row))
                \/ FloatsRaise(FemurRotCells(row))
                \/ FloatsRaise(StylusPosCells(row))
             THEN [raised |-> "ValueError", reference_data |-> reference_data]
             ELSE ReadReferenceRows(Tail(rows),
                      (row.Point_Number :>
                          [femur_pos |-> Floats(FemurPosCells(row)),
                           femur_rot |-> Floats(FemurRotCells(row)),
                           stylus_pos |-> Floats(StylusPosCells(row))])
                      @@ reference_data)

\* Mutant: the except branch keeps the rows read before the failure.
load_reference_data_keeps_rows(self, file) ==
    [self EXCEPT !.reference_data =
        IF ~file.exists
        THEN <<>>
        ELSE ReadReferenceRows(file.rows, <<>>).reference_data]

\* Mutant: the rows are added to what an earlier load has left.
load_reference_data_accumulates(self, file) ==
    LET read == ReadReferenceRows(file.rows, self.reference_data)
    IN  [self EXCEPT !.reference_data =
            IF ~file.exists \/ read.raised # NoException
            THEN <<>>
            ELSE read.reference_data]

\* RealtimeVisualizer.load_reference_data and SimpleRealtimeViz.
\* load_reference_data, the same code: self when the method returns.  It
\* starts from {} and both except branches set {} again.
load_reference_data(self, file) ==
    LET read == ReadReferenceRows(file.rows, <<>>)
    IN  [self EXCEPT !.reference_data =
            IF ~file.exists
            THEN <<>>
            ELSE IF read.raised # NoException
            THEN <<>>
            ELSE read.reference_data]

\* The loop of load_csv_data, and of calculate_mapped_point, over the rows
\* left: the two positions of a row are parsed, the rotation is not read.
RECURSIVE ReadPointRows(_, _)
ReadPointRows(rows, points) ==
    IF rows = <<>>
    THEN [raised |-> NoException, points |-> points]
    ELSE LET row == Head(rows)
         IN  IF \/ FloatsRaise(FemurPosCells(row))
                \/ FloatsRaise(StylusPosCells(row))
             THEN [raised |-> "ValueError", points |-> points]
             ELSE ReadPointRows(Tail(rows),
                      (row.Point_Number :>
                          [femur |-> Floats(FemurPosCells(row)),
                           stylus |-> Floats(StylusPosCells(row))])
                      @@ points)

\* load_csv_data(filename): no exception is caught.
load_csv_data(file) ==
    IF ~file.exists
    THEN [raised |-> "FileNotFoundError", points |-> <<>>]
    ELSE ReadPointRows(file.rows, <<>>)

\* The second reading of the file: the rotation of the first row whose
\* Point_Number is the label; rows before it are not parsed.
RECURSIVE ReadFemurRotation(_, _)
ReadFemurRotation(rows, point_label) ==
    IF rows = <<>>
    THEN [raised |-> NoException, femur_rotation |-> None]
    ELSE IF Head(rows).Point_Number # point_label
    THEN ReadFemurRotation(Tail(rows), point_label)
    ELSE IF FloatsRaise(FemurRotCells(Head(rows)))
    THEN [raised |-> "ValueError", femur_rotation |-> None]
    ELSE [raised |-> NoException,
          femur_rotation |-> Some(Floats(FemurRotCells(Head(rows))))]

\* ------------------------------------------------------- RigidBodyTracker

\* The log holds at most MaxPoints captured points.
MaxPoints == 2

\* The integer an integral binary64 number holds.
IntOf(d) ==
    IF d.mant = ZeroMant
    THEN 0
    ELSE LET magnitude == IF d.exp >= -36
                          THEN d.mant[1] * (2 ^ (d.exp + 36))
                          ELSE d.mant[1] \div (2 ^ (-36 - d.exp))
         IN  IF d.neg THEN -magnitude ELSE magnitude

\* A list of integral binary64 numbers, as the exact numbers np.array
\* gets from it.
Exact(list) == [i \in 1..Len(list) |-> IntOf(list[i])]

\* A list of fractions that are whole numbers, as those numbers.
Whole(fractions) ==
    [i \in 1..Len(fractions) |-> fractions[i][1] \div fractions[i][2]]

\* A call of a PositionCalculator method made by a method of the
\* application.
Made(fn, args, ret) == [fn |-> fn, args |-> args, ret |-> ret]

\* What a method has done when it returns: the object, what it has
\* printed, what it returns or raises and the calculator calls it has made.
Outcome(self, printed, return, calculator) ==
    [self |-> self, printed |-> printed, raised |-> NoException,
     return |-> return, calculator |-> calculator]

Raise(self, exception, calculator) ==
    [self |-> self, printed |-> [heading |-> "nothing"], raised |-> exception,
     return |-> None, calculator |-> calculator]

\* RigidBodyTracker.__init__.  The animation fields are left out;
\* last_data_received is 0 or the time of a sample, which is 1 where time
\* is not followed.
RigidBodyTracker(femur_id, stylus_id) ==
    [femur_id |-> femur_id,
     stylus_id |-> stylus_id,
     femur_position |-> None,
     femur_rotation |-> None,
     stylus_position |-> None,
     stylus_rotation |-> None,
     femur_data_received |-> FALSE,
     stylus_data_received |-> FALSE,
     captured_points |-> <<>>,
     reference_femur_position |-> None,
     reference_femur_rotation |-> None,
     reference_stylus_position |-> None,
     reference_stylus_rotation |-> None,
     reference_captured |-> FALSE,
     running |-> TRUE,
     keyboard_thread |-> None,
     connected |-> FALSE,
     connection_attempted |-> FALSE,
     last_data_received |-> 0,
     last_connection_check |-> 0]

\* Mutant: the femur rotation of the last captured point is the list the
\* callback writes the new rotation into.
on_rigid_body_received_shared(self, rigid_body_id, position, rotation) ==
    IF rigid_body_id = self.femur_id
    THEN [self EXCEPT !.last_data_received = 1,
                      !.femur_position = Some(position),
                      !.femur_rotation = Some(rotation),
                      !.femur_data_received = TRUE,
                      !.captured_points =
                          [k \in 1..Len(@) |->
                              IF k = Len(@)
                              THEN [@[k] EXCEPT !.femur_rotation = rotation]
                              ELSE @[k]]]
    ELSE IF rigid_body_id = self.stylus_id
    THEN [self EXCEPT !.last_data_received = 1,
                      !.stylus_position = Some(position),
                      !.stylus_rotation = Some(rotation),
                      !.stylus_data_received = TRUE]
    ELSE [self EXCEPT !.last_data_received = 1]

\* Mutant: a femur sample also becomes the rotation of the reference.
on_rigid_body_received_moves_reference(self, rigid_body_id, position, rotation) ==
    IF rigid_body_id = self.femur_id
    THEN [self EXCEPT !.last_data_received = 1,
                      !.femur_position = Some(position),
                      !.femur_rotation = Some(rotation),
                      !.femur_data_received = TRUE,
                      !.reference_femur_rotation =
                          IF self.reference_captured THEN Some(rotation) ELSE @]
    ELSE IF rigid_body_id = self.stylus_id
    THEN [self EXCEPT !.last_data_received = 1,
                      !.stylus_position = Some(position),
                      !.stylus_rotation = Some(rotation),
                      !.stylus_data_received = TRUE]
    ELSE [self EXCEPT !.last_data_received = 1]

\* Mutant: the stylus id is tested with if, where the code has elif.
on_rigid_body_received_both(self, rigid_body_id, position, rotation) ==
    [self EXCEPT
        !.last_data_received = 1,
        !.femur_position =
            IF rigid_body_id = self.femur_id THEN Some(position) ELSE @,
        !.femur_rotation =
            IF rigid_body_id = self.femur_id THEN Some(rotation) ELSE @,
        !.femur_data_received = @ \/ rigid_body_id = self.femur_id,
        !.stylus_position =
            IF rigid_body_id = self.stylus_id THEN Some(position) ELSE @,
        !.stylus_rotation =
            IF rigid_body_id = self.stylus_id THEN Some(rotation) ELSE @,
        !.stylus_data_received = @ \/ rigid_body_id = self.stylus_id]

\* on_rigid_body_received(rigid_body_id, position, rotation)
on_rigid_body_received(self, rigid_body_id, position, rotation) ==
    IF rigid_body_id = self.femur_id
    THEN [self EXCEPT !.last_data_received = 1,
                      !.femur_position = Some(position),
                      !.femur_rotation = Some(rotation),
                      !.femur_data_received = TRUE]
    ELSE IF rigid_body_id = self.stylus_id
    THEN [self EXCEPT !.last_data_received = 1,
                      !.stylus_position = Some(position),
                      !.stylus_rotation = Some(rotation),
                      !.stylus_data_received = TRUE]
    ELSE [self EXCEPT !.last_data_received = 1]

NoFemurData(self) == ~self.femur_data_received \/ self.femur_position = None
NoStylusData(self) == ~self.stylus_data_received \/ self.stylus_position = None

Error(message) == [heading |-> "ERROR", message |-> message]

\* A call of calculate_updated_stylus_position on exact numbers.
Reproject(reference_position, reference_rotation, reference_stylus_pos, new_position, new_rotation) ==
    Made("calculate_updated_stylus_position",
         [reference_position |-> reference_position,
          reference_rotation |-> reference_rotation,
          reference_stylus_pos |-> reference_stylus_pos,
          new_position |-> new_position,
          new_rotation |-> new_rotation],
         calculate_updated_stylus_position(reference_position,
             reference_rotation, reference_stylus_pos, new_position,
             new_rotation))

\* The calls of the two conversions.
ToMillimeters(position_meters) ==
    Made("convert_to_millimeters", [position_meters |-> position_meters],
         convert_to_millimeters(position_meters))

ToMeters(position_millimeters) ==
    Made("convert_to_meters", [position_millimeters |-> position_millimeters],
         convert_to_meters(position_millimeters))

\* What capture_positions prints: femur and stylus are the conversions
\* made, none for a pose that is not there.
PositionCapture(self, femur, stylus) ==
    Outcome(self,
            [heading |-> "POSITION CAPTURE", femur |-> femur, stylus |-> stylus],
            None, femur \o stylus)

\* capture_positions(): prints the poses it has, in millimeters.
capture_positions(self) ==
    IF ~self.connected
    THEN Outcome(self, [heading |-> "WARNING: Not connected"], None, <<>>)
    ELSE PositionCapture(self,
             IF self.femur_data_received /\ self.femur_position # None
             THEN <<ToMillimeters(self.femur_position.value)>>
             ELSE <<>>,
             IF self.stylus_data_received /\ self.stylus_position # None
             THEN <<ToMillimeters(self.stylus_position.value)>>
             ELSE <<>>)

\* Mutant: the new point is put at the head of the log.
captured_points_prepend(captured_points, data_point) ==
    <<data_point>> \o captured_points

\* self.captured_points.append(data_point)
captured_points_append(captured_points, data_point) ==
    Append(captured_points, data_point)

\* The data point of store_positions, appended and printed: femur and
\* stylus are the conversions made.  The point holds copies, in
\* millimeters; its timestamp is left out.
StoreDataPoint(self, femur, stylus) ==
    LET data_point ==
            [point_number |-> Len(self.captured_points) + 1,
             femur_position |-> femur.ret,
             femur_rotation |-> self.femur_rotation.value,
             stylus_position |-> stylus.ret,
             stylus_rotation |-> self.stylus_rotation.value]
    IN  Outcome([self EXCEPT !.captured_points =
                    captured_points_append(self.captured_points, data_point)],
                [heading |-> "DATA POINT STORED", point |-> data_point],
                None, <<femur, stylus>>)

\* Mutant: without a stylus sample the femur pose is stored alone.
store_positions_keeps_partial(self) ==
    IF NoFemurData(self)
    THEN Outcome(self, Error("Femur Tracker: No data available"), None, <<>>)
    ELSE IF NoStylusData(self)
    THEN Outcome([self EXCEPT !.captured_points =
                     Append(@, [point_number |-> Len(@) + 1,
                                femur_rotation |-> self.femur_rotation.value])],
                 Error("Stylus: No data available"), None, <<>>)
    ELSE StoreDataPoint(self, ToMillimeters(self.femur_position.value),
                        ToMillimeters(self.stylus_position.value))

\* store_positions()
store_positions(self) ==
    IF NoFemurData(self)
    THEN Outcome(self, Error("Femur Tracker: No data available"), None, <<>>)
    ELSE IF NoStylusData(self)
    THEN Outcome(self, Error("Stylus: No data available"), None, <<>>)
    ELSE StoreDataPoint(self, ToMillimeters(self.femur_position.value),
                        ToMillimeters(self.stylus_position.value))

\* list_stored_points(): prints the log in its order.
list_stored_points(self) ==
    Outcome(self,
            [heading |-> "STORED DATA POINTS", points |-> self.captured_points],
            None, <<>>)

\* export_data_points(): writes one line per point, in the order of the
\* log; the file may fail to open.  The text of a line is not modelled.
export_data_points(self, file_opens) ==
    IF self.captured_points = <<>>
    THEN Outcome(self, Error("No data points to export"), None, <<>>)
    ELSE IF ~file_opens
    THEN Outcome(self, Error("Failed to export data"), None, <<>>)
    ELSE Outcome(self,
                 [heading |-> "DATA EXPORTED",
                  lines |-> [k \in 1..Len(self.captured_points) |->
                                self.captured_points[k].point_number]],
                 None, <<>>)

\* The reference of capture_reference, stored: femur and stylus are the
\* conversions made.
StoreReference(self, femur, stylus) ==
    Outcome([self EXCEPT
                !.reference_femur_position = Some(femur.ret),
                !.reference_femur_rotation = self.femur_rotation,
                !.reference_stylus_position = Some(stylus.ret),
                !.reference_stylus_rotation = self.stylus_rotation,
                !.reference_captured = TRUE],
            [heading |-> "REFERENCE CAPTURED"],
            None, <<femur, stylus>>)

\* Mutant: without a stylus sample the femur half of the reference is
\* stored.
capture_reference_partial(self) ==
    IF NoFemurData(self)
    THEN Outcome(self, Error("Femur Tracker: No data available"), None, <<>>)
    ELSE IF NoStylusData(self)
    THEN Outcome([self EXCEPT
                     !.reference_femur_rotation = self.femur_rotation],
                 Error("Stylus: No data available"), None, <<>>)
    ELSE StoreReference(self, ToMillimeters(self.femur_position.value),
                        ToMillimeters(self.stylus_position.value))

\* capture_reference()
capture_reference(self) ==
    IF NoFemurData(self)
    THEN Outcome(self, Error("Femur Tracker: No data available"), None, <<>>)
    ELSE IF NoStylusData(self)
    THEN Outcome(self, Error("Stylus: No data available"), None, <<>>)
    ELSE StoreReference(self, ToMillimeters(self.femur_position.value),
                        ToMillimeters(self.stylus_position.value))

\* test_connection(): client.connected() answers yes or no, or raises.
test_connection(self, client_connected) ==
    Outcome([self EXCEPT !.connected = (client_connected = "yes"),
                         !.connection_attempted = TRUE],
            [heading |-> "CONNECTION TEST", client |-> client_connected],
            None, <<>>)

\* The error analysis of calculate_updated_position: the conversion of the
\* measured stylus position and the call of calculate_position_error.
ErrorAnalysis(updated, actual) ==
    <<actual,
      Made("calculate_position_error",
           [calculated_position |-> updated.ret,
            actual_position |-> actual.ret],
           calculate_position_error(Whole(updated.ret), Exact(actual.ret)))>>

\* What calculate_updated_position prints: current and updated are the
\* conversion and the reprojection made, analysis the calls of the error
\* analysis, none when there is no stylus sample.
PrintUpdated(self, current, updated, analysis) ==
    Outcome(self,
            [heading |-> "UPDATED STYLUS POSITION",
             current_femur_pos_mm |-> current.ret,
             rotation |-> self.femur_rotation.value,
             updated_stylus_pos |-> updated.ret,
             error_analysis |-> IF analysis = <<>>
                                THEN None
                                ELSE Some(analysis[2].ret)],
            None, <<current, updated>> \o analysis)

\* calculate_updated_position from the reprojection on: the measured
\* stylus position is compared when a stylus sample is there.
CompareUpdated(self, current, updated) ==
    PrintUpdated(self, current, updated,
                 IF self.stylus_data_received /\ self.stylus_position # None
                 THEN ErrorAnalysis(updated,
                                    ToMillimeters(self.stylus_position.value))
                 ELSE <<>>)

\* Mutant: the current femur position is passed as the feed gives it, in
\* meters.
ReprojectReference_in_meters(self, current) ==
    CompareUpdated(self, current,
        Reproject(Exact(self.reference_femur_position.value),
                  self.reference_femur_rotation.value,
                  Exact(self.reference_stylus_position.value),
                  Exact(self.femur_position.value),
                  self.femur_rotation.value))

\* Mutant: the computed position is kept as the reference stylus position.
KeepUpdated(outcome) ==
    [outcome EXCEPT !.self.reference_stylus_position =
        Some([i \in 1..3 |-> FromInt(Whole(outcome.calculator[2].ret)[i])])]

ReprojectReference_keeps_result(self, current) ==
    KeepUpdated(CompareUpdated(self, current,
        Reproject(Exact(self.reference_femur_position.value),
                  self.reference_femur_rotation.value,
                  Exact(self.reference_stylus_position.value),
                  Exact(current.ret),
                  self.femur_rotation.value)))

\* calculate_updated_position from the conversion on: the stored reference
\* is reprojected at the current femur pose, current being the conversion
\* of the current femur position.
ReprojectReference(self, current) ==
    CompareUpdated(self, current,
        Reproject(Exact(self.reference_femur_position.value),
                  self.reference_femur_rotation.value,
                  Exact(self.reference_stylus_position.value),
                  Exact(current.ret),
                  self.femur_rotation.value))

\* calculate_updated_position(): the reprojection of the stored reference
\* at the current femur pose and, when a stylus sample is there, its
\* deviation from the measured stylus position.
calculate_updated_position(self) ==
    IF ~self.reference_captured
    THEN Outcome(self, Error("No reference captured yet"), None, <<>>)
    ELSE IF NoFemurData(self)
    THEN Outcome(self, Error("Femur Tracker: No current data available"),
                 None, <<>>)
    ELSE ReprojectReference(self, ToMillimeters(self.femur_position.value))

\* transformation_matrix.tolist(): [R | t] over the row [0, 0, 0, 1].
TransformationMatrix(R, t) ==
    [i \in 1..4 |->
        IF i = 4
        THEN <<Rat(0, 1), Rat(0, 1), Rat(0, 1), Rat(1, 1)>>
        ELSE <<Rat(R.num[i][1], R.den), Rat(R.num[i][2], R.den),
               Rat(R.num[i][3], R.den), t[i]>>]

\* The dictionary calculate_mapped_point returns: ref is the entry of the
\* label, femur_rotation the rotation read for it, current, calculated and
\* matrix the calculator calls made.
MappedPoint(self, point_label, ref, femur_rotation, current, calculated, matrix) ==
    Outcome(self,
            [heading |-> "CALCULATED POSITION", point_label |-> point_label],
            [point_label |-> point_label,
             calculated_position_mm |-> calculated.ret,
             transformation_matrix |->
                 TransformationMatrix(matrix.ret, calculated.ret),
             current_femur_pos_mm |-> current.ret,
             reference_femur_pos_mm |-> ref.femur,
             reference_stylus_pos_mm |-> ref.stylus,
             reference_femur_rotation |-> femur_rotation],
            <<current, calculated, matrix>>)

\* calculate_mapped_point from the conversion of the current femur
\* position on: the rotation of the file, W first, is handed over as it is
\* read.
MapPointAt(self, point_label, ref, femur_rotation, current) ==
    MappedPoint(self, point_label, ref, femur_rotation, current,
        Reproject(ref.femur, femur_rotation, ref.stylus, Exact(current.ret),
                  self.femur_rotation.value),
        Made("quaternion_to_rotation_matrix", [q |-> self.femur_rotation.value],
             quaternion_to_rotation_matrix(NpArray(self.femur_rotation.value))))

\* calculate_mapped_point after the second reading of the file, which is
\* outside every try block.
MapPointRead(self, point_label, ref, second) ==
    IF second.raised # NoException
    THEN Raise(self, second.raised, <<>>)
    ELSE IF second.femur_rotation = None
    THEN Outcome(self, Error("Could not find femur rotation"), None, <<>>)
    ELSE MapPointAt(self, point_label, ref, second.femur_rotation.value,
                    ToMillimeters(self.femur_position.value))

\* calculate_mapped_point after the first reading of the file: a failure
\* to load is reported and answered with None, and so is a label that is
\* not among the points.
MapPointLoaded(self, point_label, file, loaded) ==
    IF loaded.raised # NoException
    THEN Outcome(self, Error("Error reading CSV file"), None, <<>>)
    ELSE IF point_label \notin DOMAIN loaded.points
    THEN Outcome(self, [heading |-> "ERROR", message |-> "Point not found"],
                 None, <<>>)
    ELSE MapPointRead(self, point_label, loaded.points[point_label],
                      ReadFemurRotation(file.rows, point_label))

\* calculate_mapped_point(point_label, csv_filename)
calculate_mapped_point(self, point_label, file) ==
    IF NoFemurData(self)
    THEN Outcome(self, Error("Femur Tracker: No current data available"),
                 None, <<>>)
    ELSE IF ~file.exists
    THEN Outcome(self, Error("CSV file not found"), None, <<>>)
    ELSE MapPointLoaded(self, point_label, file, ReadPointRows(file.rows, <<>>))

\* The dictionary calculate_point_position returns.  The two reference
\* positions have also been converted to meters; the results are not used.
PointPosition(point_label, ref, femur_rotation, femur_meters, stylus_meters, current, calculated) ==
    Outcome(None, [heading |-> "nothing"],
            [point_label |-> point_label,
             calculated_position_mm |-> calculated.ret,
             current_femur_pos_mm |-> current.ret,
             reference_femur_pos_mm |-> ref.femur,
             reference_stylus_pos_mm |-> ref.stylus,
             reference_femur_rotation |-> femur_rotation],
            <<femur_meters, stylus_meters, current, calculated>>)

\* calculate_point_position from the conversions on.
PointPositionAt(point_label, current_femur_rot_quat, ref, femur_rotation, femur_meters, stylus_meters, current) ==
    PointPosition(point_label, ref, femur_rotation, femur_meters,
        stylus_meters, current,
        Reproject(ref.femur, femur_rotation, ref.stylus, Exact(current.ret),
                  current_femur_rot_quat))

\* calculate_point_position after the second reading of the file.
PointPositionRead(point_label, current_femur_pos_meters, current_femur_rot_quat, ref, second) ==
    IF second.raised # NoException
    THEN Raise(None, second.raised, <<>>)
    ELSE IF second.femur_rotation = None
    THEN Outcome(None, Error("Could not find femur rotation"), None, <<>>)
    ELSE PointPositionAt(point_label, current_femur_rot_quat, ref,
             second.femur_rotation.value,
             ToMeters([i \in 1..3 |-> FromInt(ref.femur[i])]),
             ToMeters([i \in 1..3 |-> FromInt(ref.stylus[i])]),
             ToMillimeters(current_femur_pos_meters))

\* Mutant: the label is not looked for before the points are indexed.
PointPositionLoaded_unchecked(point_label, current_femur_pos_meters, current_femur_rot_quat, file, loaded) ==
    IF loaded.raised # NoException
    THEN Raise(None, loaded.raised, <<>>)
    ELSE IF point_label \notin DOMAIN loaded.points
    THEN Raise(None, "KeyError", <<>>)
    ELSE PointPositionRead(point_label, current_femur_pos_meters,
                           current_femur_rot_quat, loaded.points[point_label],
                           ReadFemurRotation(file.rows, point_label))

\* calculate_point_position after load_csv_data: what it raises is raised
\* to the caller; a label that is not among the points is answered with
\* None.
PointPositionLoaded(point_label, current_femur_pos_meters, current_femur_rot_quat, file, loaded) ==
    IF loaded.raised # NoException
    THEN Raise(None, loaded.raised, <<>>)
    ELSE IF point_label \notin DOMAIN loaded.points
    THEN Outcome(None, [heading |-> "Error", message |-> "Point not found"],
                 None, <<>>)
    ELSE PointPositionRead(point_label, current_femur_pos_meters,
                           current_femur_rot_quat, loaded.points[point_label],
                           ReadFemurRotation(file.rows, point_label))

\* calculate_point_position(point_label, current_femur_pos_meters,
\* current_femur_rot_quat, csv_filename) of visualize_points
calculate_point_position(point_label, current_femur_pos_meters, current_femur_rot_quat, file) ==
    PointPositionLoaded(point_label, current_femur_pos_meters,
                        current_femur_rot_quat, file, load_csv_data(file))

\* str.lower(), over the letters of the commands and of the labels
LowerChar(c) ==
    CASE c = "C" -> "c" [] c = "S" -> "s" [] c = "L" -> "l"
      [] c = "E" -> "e" [] c = "R" -> "r" [] c = "U" -> "u"
      [] c = "T" -> "t" [] c = "P" -> "p" [] c = "Q" -> "q"
      [] c = "H" -> "h" [] c = "M" -> "m"
      [] OTHER -> c

str_lower(string) == [i \in 1..Len(string) |-> LowerChar(string[i])]

\* key = input().strip().lower()
KeyOf(line) == str_lower(str_strip(line))

\* Mutant: the typed label is looked up as it is typed.
TypedLabelAsTyped(line) == str_strip(line)

\* point_label = input().strip().upper()
TypedLabel(line) == str_upper(str_strip(line))

\* except Exception as e: the exception of a command is printed.
Caught(outcome) ==
    IF outcome.raised # NoException
    THEN Outcome(outcome.self,
                 [heading |-> "Keyboard input error", message |-> outcome.raised],
                 None, outcome.calculator)
    ELSE outcome

\* One turn of the loop of keyboard_input_handler: line is the command
\* typed, label_line the line typed after 'p', file the catalog file,
\* client_connected the answer of client.connected() and file_opens whether
\* the export file can be written.  An exception of a command is caught
\* and printed.
keyboard_input_handler(self, line, label_line, file, client_connected, file_opens) ==
    LET key == KeyOf(line)
    IN  CASE key = <<"c">> -> capture_positions(self)
          [] key = <<"s">> -> store_positions(self)
          [] key = <<"l">> -> list_stored_points(self)
          [] key = <<"e">> -> export_data_points(self, file_opens)
          [] key = <<"r">> -> capture_reference(self)
          [] key = <<"u">> -> calculate_updated_position(self)
          [] key = <<"t">> -> test_connection(self, client_connected)
          [] key = <<"p">> ->
                 Caught(calculate_mapped_point(self, TypedLabel(label_line),
                                               file))
          [] key = <<"q">> ->
                 Outcome([self EXCEPT !.running = FALSE],
                         [heading |-> "Quitting..."], None, <<>>)
          [] key = <<"h">> ->
                 Outcome(self, [heading |-> "Keyboard Controls"], None, <<>>)
          [] OTHER ->
                 Outcome(self, [heading |-> "Unknown command"], None, <<>>)

\* --------------------------------- RealtimeVisualizer, SimpleRealtimeViz

\* str(i) for i in 1..10
Str(i) ==
    IF i = 10
    THEN <<"1", "0">>
    ELSE <<<<"1", "2", "3", "4", "5", "6", "7", "8", "9">>[i]>>

\* The objects after __init__ and before the load that ends it.
RealtimeVisualizer ==
    [class |-> "RealtimeVisualizer",
     running |-> FALSE,
     current_femur_pos |-> None,
     current_femur_rot |-> None,
     calculated_planes |-> None,
     reference_data |-> <<>>]

SimpleRealtimeViz ==
    [class |-> "SimpleRealtimeViz", reference_data |-> <<>>]

\* The loop for i in range(1, 11), from i on: an L-M pair is computed when
\* both labels are in reference_data.
RECURSIVE LandmarkPairs(_, _, _, _)
LandmarkPairs(i, reference_data, current_femur_pos_mm, current_femur_rot) ==
    IF i > 10
    THEN <<>>
    ELSE LET l_label == <<"L">> \o Str(i)
             m_label == <<"M">> \o Str(i)
             l_ref == reference_data[l_label]
             m_ref == reference_data[m_label]
             rest == LandmarkPairs(i + 1, reference_data,
                                   current_femur_pos_mm, current_femur_rot)
         IN  IF l_label \in DOMAIN reference_data
                /\ m_label \in DOMAIN reference_data
             THEN <<[i |-> i,
                     l |-> Reproject(l_ref.femur_pos, l_ref.femur_rot,
                                     l_ref.stylus_pos,
                                     Exact(current_femur_pos_mm),
                                     current_femur_rot),
                     m |-> Reproject(m_ref.femur_pos, m_ref.femur_rot,
                                     m_ref.stylus_pos,
                                     Exact(current_femur_pos_mm),
                                     current_femur_rot)]>> \o rest
             ELSE rest

\* The calculator calls of the pairs, in the order they are made.
RECURSIVE PairCalls(_)
PairCalls(pairs) ==
    IF pairs = <<>>
    THEN <<>>
    ELSE <<Head(pairs).l, Head(pairs).m>> \o PairCalls(Tail(pairs))

\* not x, for x None or a list
Falsy(x) == x = None \/ x.value = <<>>

\* The planes calculate_planes stores: current is the conversion made,
\* pairs the pairs computed.
StorePlanes(self, current, pairs) ==
    Outcome([self EXCEPT !.calculated_planes =
                Some([k \in 1..Len(pairs) |->
                         [l_pos |-> pairs[k].l.ret,
                          m_pos |-> pairs[k].m.ret,
                          label |-> <<"L">> \o Str(pairs[k].i)
                                    \o <<"-", "M">> \o Str(pairs[k].i)]])],
            [heading |-> "nothing"], None, <<current>> \o PairCalls(pairs))

\* calculate_planes from the conversion of the current position on.
PlanesAt(self, current) ==
    StorePlanes(self, current,
                LandmarkPairs(1, self.reference_data, current.ret,
                              self.current_femur_rot.value))

\* RealtimeVisualizer.calculate_planes()
calculate_planes(self) ==
    IF Falsy(self.current_femur_pos) \/ Falsy(self.current_femur_rot)
    THEN Outcome(self, [heading |-> "nothing"], None, <<>>)
    ELSE PlanesAt(self, ToMillimeters(self.current_femur_pos.value))

\* RealtimeVisualizer.update_tracker_data(femur_pos_meters, femur_rot_quat)
update_tracker_data(self, femur_pos_meters, femur_rot_quat) ==
    calculate_planes([self EXCEPT !.current_femur_pos = femur_pos_meters,
                                  !.current_femur_rot = femur_rot_quat])

\* Mutant: the M positions are returned in the opposite order.
UpdatedPositions_m_reversed(self, current, pairs) ==
    Outcome(self, [heading |-> "nothing"],
            [l_positions |-> Some([k \in 1..Len(pairs) |-> pairs[k].l.ret]),
             m_positions |->
                 Some([k \in 1..Len(pairs) |-> pairs[Len(pairs) + 1 - k].m.ret])],
            <<current>> \o PairCalls(pairs))

\* The two lists calculate_updated_positions returns.
UpdatedPositions(self, current, pairs) ==
    Outcome(self, [heading |-> "nothing"],
            [l_positions |-> Some([k \in 1..Len(pairs) |-> pairs[k].l.ret]),
             m_positions |-> Some([k \in 1..Len(pairs) |-> pairs[k].m.ret])],
            <<current>> \o PairCalls(pairs))

\* calculate_updated_positions from the conversion on.
UpdatedPositionsAt(self, current_femur_rot_quat, current) ==
    UpdatedPositions(self, current,
                     LandmarkPairs(1, self.reference_data, current.ret,
                                   current_femur_rot_quat.value))

\* SimpleRealtimeViz.calculate_updated_positions(current_femur_pos_meters,
\* current_femur_rot_quat)
calculate_updated_positions(self, current_femur_pos_meters, current_femur_rot_quat) ==
    IF Falsy(current_femur_pos_meters) \/ Falsy(current_femur_rot_quat)
    THEN Outcome(self, [heading |-> "nothing"],
                 [l_positions |-> None, m_positions |-> None], <<>>)
    ELSE UpdatedPositionsAt(self, current_femur_rot_quat,
                            ToMillimeters(current_femur_pos_meters.value))

\* ------------------------------------------------ inputs of the application

DEFAULT_FEMUR_ID == 1
DEFAULT_STYLUS_ID == 2
DEFAULT_ROBOT_BASE_ID == 3

\* A position of the feed, in meters, as binary64 numbers.
Meters(v) == [i \in 1..Len(v) |-> FromInt(v[i])]

Pose(position, rotation) == [position |-> position, rotation |-> rotation]

\* The rotations of the feed: none, and a half turn about z.
NoTurn == <<0, 0, 0, 1>>
HalfTurnZ == <<0, 0, 1, 0>>

FemurPoses ==
    {Pose(Meters(<<0, 0, 0>>), NoTurn),
     Pose(Meters(<<0, 0, 1>>), HalfTurnZ)}

StylusPoses ==
    {Pose(Meters(<<0, 1, 0>>), NoTurn),
     Pose(Meters(<<1, 0, 0>>), NoTurn)}

Sample(rigid_body_id, pose) ==
    [rigid_body_id |-> rigid_body_id, position |-> pose.position,
     rotation |-> pose.rotation]

FemurSamples == {Sample(DEFAULT_FEMUR_ID, pose) : pose \in FemurPoses}

Samples ==
    FemurSamples
        \cup {Sample(DEFAULT_STYLUS_ID, pose) : pose \in StylusPoses}
        \cup {Sample(DEFAULT_ROBOT_BASE_ID, Pose(Meters(<<0, 0, 0>>), NoTurn))}

\* The rows a catalog file is made of: two rows labelled L3 that differ,
\* a row labelled M3, a row whose position is no number and a row whose
\* rotation is no number.
LabelL3 == <<"L", "3">>
LabelM3 == <<"M", "3">>

RowL3 ==
    Row(LabelL3, Cells(<<0, 0, 0>>), Cells(<<1, 0, 0, 0>>), Cells(<<10, 0, 0>>))

RowL3Again ==
    Row(LabelL3, Cells(<<0, 10, 0>>), Cells(<<0, 0, 0, 1>>), Cells(<<0, 0, 10>>))

RowM3 ==
    Row(LabelM3, Cells(<<0, 0, 0>>), Cells(<<1, 0, 0, 0>>), Cells(<<0, 10, 0>>))

RowBadPosition ==
    Row(LabelM3, <<BadCell, Cell(0), Cell(0)>>, Cells(<<1, 0, 0, 0>>),
        Cells(<<0, 10, 0>>))

RowBadRotation ==
    Row(LabelM3, Cells(<<0, 0, 0>>), <<BadCell, Cell(0), Cell(0), Cell(0)>>,
        Cells(<<0, 10, 0>>))

CatalogRows == {RowL3, RowL3Again, RowM3, RowBadPosition, RowBadRotation}

Files ==
    {MissingFile}
        \cup {File(rows) : rows \in UNION {[1..n -> CatalogRows] : n \in 0..MaxRows}}

ExampleCatalog == File(<<RowL3, RowM3>>)

\* The labels a caller asks for, and the lines typed after 'p'.
Labels == {LabelL3, LabelM3, <<"l", "3">>}
LabelLines == {<<"l", "3">>, <<" ", "M", "3">>, <<"L", "9">>}

\* The lines typed as commands.
Lines ==
    {<<"c">>, <<"S">>, <<"l">>, <<"e">>, <<"r">>, <<" ", "u">>, <<"t">>, <<"p">>,
     <<"q">>, <<"h">>, <<"x">>}

Classes == {"RealtimeVisualizer", "SimpleRealtimeViz"}

\* ------------------------------------------- actions of the application

\* The record of a call of a method of the application.
Record(fn, args, out) ==
    Call(fn, args,
         IF out.raised # NoException THEN [raised |-> out.raised] ELSE out.return,
         [printed |-> out.printed, calculator |-> out.calculator])

\* The visualizer of a class, constructed on a file.
Visualizer(class, file) ==
    load_reference_data(IF class = "RealtimeVisualizer"
                        THEN RealtimeVisualizer
                        ELSE SimpleRealtimeViz,
                        file)

\* After construction: a tracker with the default ids, a visualizer that
\* has loaded the file, no call made yet.
InitApplication(files) ==
    /\ given \in [femur_id : {DEFAULT_FEMUR_ID}, stylus_id : {DEFAULT_STYLUS_ID},
                  class : Classes]
    /\ source \in files
    /\ tracker = RigidBodyTracker(given.femur_id, given.stylus_id)
    /\ visualizer = Visualizer(given.class, source)
    /\ threads = NotBuilt
    /\ calls = <<>>

\* connect_and_run() up to the start of the keyboard thread: client.run
\* succeeds or fails.
ConnectAndRun ==
    /\ ~tracker.connection_attempted
    /\ \E started \in BOOLEAN :
          /\ tracker' = [tracker EXCEPT
                            !.connection_attempted = TRUE,
                            !.connected = started,
                            !.keyboard_thread =
                                IF started THEN Some("started") ELSE None]
          /\ calls' = <<Call("connect_and_run", [client_run |-> started],
                             [started |-> started], NoLocals)>>
    /\ UNCHANGED <<given, source, visualizer, threads>>

Tracking == tracker.keyboard_thread # None /\ tracker.running

\* The data thread delivers one of the samples.
Receive(samples) ==
    /\ Tracking
    /\ \E sample \in samples :
          /\ tracker' = on_rigid_body_received(tracker, sample.rigid_body_id,
                                               sample.position, sample.rotation)
          /\ calls' = <<Call("on_rigid_body_received", sample, None, NoLocals)>>
    /\ UNCHANGED <<given, source, visualizer, threads>>

ReceiveSample == Receive(Samples)

ReceiveFemurSample ==
    Receive({Sample(DEFAULT_FEMUR_ID, Pose(Meters(<<0, 0, 1>>), NoTurn))})

\* A method of the tracker has been called: the tracker is as the method
\* leaves it, and the call is recorded.
TrackerCalled(fn, args, out) ==
    /\ tracker' = out.self
    /\ calls' = <<Record(fn, args, out)>>

\* A method of the visualizer has been called.
VisualizerCalled(fn, args, out) ==
    /\ visualizer' = out.self
    /\ calls' = <<Record(fn, args, out)>>

NoLine == {<<>>}
NoAnswer == {"not asked"}
NoFile == {FALSE}

\* What a command asks for after its key: 'p' reads a label, 't' asks the
\* client whether it is connected, 'e' opens a file to write.
LabelLinesOf(line) == IF KeyOf(line) = <<"p">> THEN LabelLines ELSE NoLine
AnswersOf(line) ==
    IF KeyOf(line) = <<"t">> THEN {"yes", "no", "raises"} ELSE NoAnswer
OpensOf(line) == IF KeyOf(line) = <<"e">> THEN BOOLEAN ELSE NoFile

\* The keyboard thread reads one of the lines, and what its command asks
\* for.  The log of stored points is kept within MaxPoints.
Keyboard(lines) ==
    /\ Tracking
    /\ \E line \in lines :
          /\ KeyOf(line) = <<"s">> => Len(tracker.captured_points) < MaxPoints
          /\ \E label_line \in LabelLinesOf(line),
                client_connected \in AnswersOf(line),
                file_opens \in OpensOf(line) :
                TrackerCalled("keyboard_input_handler",
                              [line |-> line, label_line |-> label_line,
                               client_connected |-> client_connected,
                               file_opens |-> file_opens],
                              keyboard_input_handler(tracker, line, label_line,
                                                     source, client_connected,
                                                     file_opens))
    /\ UNCHANGED <<given, source, visualizer, threads>>

\* Every command.
KeyboardCommand == Keyboard(Lines)

\* The commands that reproject a stylus position.
KeyboardReproject == Keyboard({<<"r">>, <<" ", "u">>, <<"p">>})

\* The command that looks a point up.
KeyboardPoint == Keyboard({<<"p">>})

\* A caller of the tracker asks for a mapped point.
CallCalculateMappedPoint ==
    /\ \E point_label \in Labels :
          TrackerCalled("calculate_mapped_point", [point_label |-> point_label],
                        calculate_mapped_point(tracker, point_label, source))
    /\ UNCHANGED <<given, source, visualizer, threads>>

\* A caller of visualize_points asks for a point at a femur pose.
CallCalculatePointPosition ==
    /\ \E point_label \in Labels, pose \in FemurPoses :
          calls' = <<Record("calculate_point_position",
                            [point_label |-> point_label,
                             current_femur_pos_meters |-> pose.position,
                             current_femur_rot_quat |-> pose.rotation],
                            calculate_point_position(point_label, pose.position,
                                                     pose.rotation, source))>>
    /\ UNCHANGED <<given, objects, threads>>

\* A caller of visualize_points loads the file.
CallLoadCsvData ==
    /\ LET loaded == load_csv_data(source)
       IN  calls' = <<Call("load_csv_data", [filename |-> source],
                           IF loaded.raised # NoException
                           THEN [raised |-> loaded.raised]
                           ELSE [points |-> loaded.points],
                           NoLocals)>>
    /\ UNCHANGED <<given, objects, threads>>

\* load_reference_data() is called again on the visualizer.
Reload ==
    /\ visualizer' = load_reference_data(visualizer, source)
    /\ calls' = <<Call("load_reference_data",
                       [self |-> visualizer, csv_filename |-> source],
                       None, NoLocals)>>
    /\ UNCHANGED <<given, source, tracker, threads>>

\* The file is replaced by another one.
RewriteFile ==
    /\ source' \in Files \ {source}
    /\ calls' = <<>>
    /\ UNCHANGED <<given, tracker, visualizer, threads>>

\* The poses a caller hands to a visualizer: None, or a femur pose.
HandedPoses ==
    {Pose(None, None)}
        \cup {Pose(Some(pose.position), Some(pose.rotation)) : pose \in FemurPoses}

\* A caller hands the current femur pose to the RealtimeVisualizer.
UpdateTrackerData ==
    /\ given.class = "RealtimeVisualizer"
    /\ \E pose \in HandedPoses :
          VisualizerCalled("update_tracker_data",
                           [femur_pos_meters |-> pose.position,
                            femur_rot_quat |-> pose.rotation],
                           update_tracker_data(visualizer, pose.position,
                                               pose.rotation))
    /\ UNCHANGED <<given, source, tracker, threads>>

\* A caller asks the SimpleRealtimeViz for the updated positions.
CallCalculateUpdatedPositions ==
    /\ given.class = "SimpleRealtimeViz"
    /\ \E pose \in HandedPoses :
          VisualizerCalled("calculate_updated_positions",
                           [current_femur_pos_meters |-> pose.position,
                            current_femur_rot_quat |-> pose.rotation],
                           calculate_updated_positions(visualizer, pose.position,
                                                       pose.rotation))
    /\ UNCHANGED <<given, source, tracker, threads>>

\* The catalog: files of every content, loaded, reloaded and looked up.
InitCatalog == InitApplication(Files)

NextCatalog ==
    \/ RewriteFile
    \/ Reload
    \/ CallLoadCsvData
    \/ ConnectAndRun
    \/ ReceiveFemurSample
    \/ CallCalculateMappedPoint
    \/ KeyboardPoint
    \/ CallCalculatePointPosition

SpecCatalog == InitCatalog /\ [][NextCatalog]_vars

\* The tracker: every command and every sample, on one catalog file.
InitTracker == InitApplication({ExampleCatalog})

NextTracker ==
    \/ ConnectAndRun
    \/ ReceiveSample
    \/ KeyboardCommand

SpecTracker == InitTracker /\ [][NextTracker]_vars

\* The callers of calculate_updated_stylus_position, on one catalog file.
InitCallSites == InitApplication({ExampleCatalog})

NextCallSites ==
    \/ ConnectAndRun
    \/ ReceiveSample
    \/ KeyboardReproject
    \/ CallCalculateMappedPoint
    \/ CallCalculatePointPosition
    \/ UpdateTrackerData
    \/ CallCalculateUpdatedPositions

SpecCallSites == InitCallSites /\ [][NextCallSites]_vars

\* ------------------------------------------------ the threads interleaved

\* The data thread of the client runs on_rigid_body_received and the
\* keyboard thread runs the commands; there is no lock, and the interpreter
\* may switch from one thread to the other between any two statements.

\* The log holds at most MaxRacingPoints points.
MaxRacingPoints == 1

\* The samples of the feed: the femur at its two poses, the stylus at one.
RacingSamples ==
    FemurSamples
        \cup {Sample(DEFAULT_STYLUS_ID, Pose(Meters(<<0, 1, 0>>), NoTurn))}

\* A thread that is not inside a call.
Idle == [at |-> "idle"]

\* Line 156 and the tests of lines 159 and 165: the line the callback goes
\* on with.
CallbackBranch(self, rigid_body_id) ==
    IF rigid_body_id = self.femur_id
    THEN 160
    ELSE IF rigid_body_id = self.stylus_id
    THEN 166
    ELSE 169

\* Mutant: the flag is set before the position and the rotation are.
on_rigid_body_received_line_flag_first(self, at, position, rotation) ==
    CASE at = 160 -> [self EXCEPT !.femur_data_received = TRUE]
      [] at = 161 -> [self EXCEPT !.femur_position = Some(position)]
      [] at = 162 -> [self EXCEPT !.femur_rotation = Some(rotation)]
      [] at = 166 -> [self EXCEPT !.stylus_data_received = TRUE]
      [] at = 167 -> [self EXCEPT !.stylus_position = Some(position)]
      [] at = 168 -> [self EXCEPT !.stylus_rotation = Some(rotation)]

\* One assignment of on_rigid_body_received: the one of the line.
on_rigid_body_received_line(self, at, position, rotation) ==
    CASE at = 160 -> [self EXCEPT !.femur_position = Some(position)]
      [] at = 161 -> [self EXCEPT !.femur_rotation = Some(rotation)]
      [] at = 162 -> [self EXCEPT !.femur_data_received = TRUE]
      [] at = 166 -> [self EXCEPT !.stylus_position = Some(position)]
      [] at = 167 -> [self EXCEPT !.stylus_rotation = Some(rotation)]
      [] at = 168 -> [self EXCEPT !.stylus_data_received = TRUE]

\* The callback returns after line 162, after line 168, or at once for
\* another body.
CallbackReturns(at) == at \in {163, 169}

\* The data thread enters the callback with a sample: line 156.
EnterCallback ==
    /\ Tracking
    /\ threads.data = Idle
    /\ \E sample \in RacingSamples :
          /\ tracker' = [tracker EXCEPT !.last_data_received = 1]
          /\ threads' = [threads EXCEPT !.data =
                [at |-> CallbackBranch(tracker, sample.rigid_body_id),
                 sample |-> sample]]
    /\ UNCHANGED <<given, calls, source, visualizer>>

\* The data thread executes the assignment it stands before.
CallbackLine ==
    /\ threads.data # Idle
    /\ ~CallbackReturns(threads.data.at)
    /\ tracker' = on_rigid_body_received_line(tracker, threads.data.at,
                      threads.data.sample.position,
                      threads.data.sample.rotation)
    /\ threads' = [threads EXCEPT !.data.at = @ + 1]
    /\ UNCHANGED <<given, calls, source, visualizer>>

\* The callback returns.
LeaveCallback ==
    /\ threads.data # Idle
    /\ CallbackReturns(threads.data.at)
    /\ threads' = [threads EXCEPT !.data = Idle]
    /\ calls' = <<Call("on_rigid_body_received", threads.data.sample, None,
                       NoLocals)>>
    /\ UNCHANGED <<given, source, tracker, visualizer>>

\* The commands that read the femur pose, and the label typed after 'p'.
PoseCommands == {<<"S">>, <<"r">>, <<" ", "u">>, <<"p">>}
PoseLabelLine(line) == IF KeyOf(line) = <<"p">> THEN <<"l", "3">> ELSE <<>>

\* A command of PoseCommands took the femur position (lines 231, 299, 335,
\* 665) when it got as far as that: it has then made a conversion.
ReadsFemurPosition(out) == out.calculator # <<>>

\* The tracker as the rest of a command sees it: the femur position is
\* the one the command has read, every other field is read from now on.
SeenBy(self, command) == [self EXCEPT !.femur_position = command.femur_position]

\* The command has not assigned the femur position: the field is what the
\* callback last wrote.
Finished(out, self) == [out EXCEPT !.self.femur_position = self.femur_position]

\* The command of a line, executed in one piece.
Command(self, line) ==
    keyboard_input_handler(self, line, PoseLabelLine(line), source,
                           "not asked", FALSE)

CommandArgs(line) ==
    [line |-> line, label_line |-> PoseLabelLine(line),
     client_connected |-> "not asked", file_opens |-> FALSE]

\* The keyboard thread begins a command: it makes the checks of the
\* command, and when none fails it reads self.femur_position.
BeginCommand ==
    /\ Tracking
    /\ threads.keyboard = Idle
    /\ \E line \in PoseCommands :
          /\ KeyOf(line) = <<"s">> =>
                 Len(tracker.captured_points) < MaxRacingPoints
          /\ ReadsFemurPosition(Command(tracker, line))
          /\ threads' = [threads EXCEPT !.keyboard =
                [at |-> "femur position read", line |-> line,
                 femur_position |-> tracker.femur_position]]
    /\ UNCHANGED <<given, calls, source, tracker, visualizer>>

\* The keyboard thread begins a command one of whose checks fails: the
\* command reports and returns.
RejectCommand ==
    /\ Tracking
    /\ threads.keyboard = Idle
    /\ \E line \in PoseCommands :
          /\ ~ReadsFemurPosition(Command(tracker, line))
          /\ TrackerCalled("keyboard_input_handler", CommandArgs(line),
                           Command(tracker, line))
    /\ UNCHANGED <<given, source, visualizer, threads>>

\* The keyboard thread executes the rest of the command: it reads
\* self.femur_rotation (lines 239, 300, 340, 673) and whatever else the
\* command reads, and computes, stores and prints.
EndCommand ==
    /\ threads.keyboard # Idle
    /\ TrackerCalled("keyboard_input_handler", CommandArgs(threads.keyboard.line),
                     Finished(Command(SeenBy(tracker, threads.keyboard),
                                      threads.keyboard.line),
                              tracker))
    /\ threads' = [threads EXCEPT !.keyboard = Idle]
    /\ UNCHANGED <<given, source, visualizer>>

InitInterleaved ==
    /\ given \in [femur_id : {DEFAULT_FEMUR_ID}, stylus_id : {DEFAULT_STYLUS_ID},
                  class : {"SimpleRealtimeViz"}]
    /\ source = ExampleCatalog
    /\ tracker = RigidBodyTracker(given.femur_id, given.stylus_id)
    /\ visualizer = Visualizer(given.class, source)
    /\ threads = [data |-> Idle, keyboard |-> Idle]
    /\ calls = <<>>

NextInterleaved ==
    \/ ConnectAndRun
    \/ EnterCallback
    \/ CallbackLine
    \/ LeaveCallback
    \/ BeginCommand
    \/ RejectCommand
    \/ EndCommand

SpecInterleaved == InitInterleaved /\ [][NextInterleaved]_vars

\* ------------------------------------ connection monitoring and shutdown

CONNECTION_TIMEOUT == 15
CONNECTION_CHECK_INTERVAL == 2

\* time.time() when connect_and_run is called, in seconds since the epoch.
StartTime == 100

\* The seconds followed after StartTime.
MaxElapsed == 17

\* is_connection_healthy(): client_connected is the answer of
\* client.connected(), which may raise.
is_connection_healthy(self, current_time, client_connected) ==
    IF current_time - self.last_data_received > CONNECTION_TIMEOUT
    THEN FALSE
    ELSE client_connected = "yes"

\* The status of update_connection_status once the check is made.
ConnectionChecked(self, current_time, healthy) ==
    LET checked == [self EXCEPT !.last_connection_check = current_time,
                                !.connected = healthy]
    IN  IF self.connected /\ ~healthy
        THEN IF current_time - self.last_data_received > CONNECTION_TIMEOUT
             THEN Outcome(checked, [heading |-> "CONNECTION LOST"], None, <<>>)
             ELSE Outcome(checked, [heading |-> "nothing"], None, <<>>)
        ELSE IF ~self.connected /\ healthy
        THEN Outcome(checked, [heading |-> "CONNECTION RESTORED"], None, <<>>)
        ELSE Outcome(checked, [heading |-> "nothing"], None, <<>>)

\* update_connection_status() at current_time.
update_connection_status(self, current_time, client_connected) ==
    IF current_time - self.last_connection_check < CONNECTION_CHECK_INTERVAL
    THEN Outcome(self, [heading |-> "nothing"], None, <<>>)
    ELSE ConnectionChecked(self, current_time,
             is_connection_healthy(self, current_time, client_connected))

\* The threads of connect_and_run: the main thread is at the test of its
\* monitoring loop ("while"), in its sleep, or has left connect_and_run;
\* the keyboard thread is in its loop or has left it; the clock gives
\* time.time().
Monitoring == tracker.keyboard_thread # None /\ threads.main # "returned"

\* connect_and_run has returned: client.run failed, or the monitoring loop
\* was left.
Returned ==
    \/ threads.main = "returned"
    \/ tracker.connection_attempted /\ tracker.keyboard_thread = None

\* A second passes.
Tick ==
    /\ tracker.connection_attempted
    /\ threads.clock < StartTime + MaxElapsed
    /\ threads' = [threads EXCEPT !.clock = @ + 1]
    /\ UNCHANGED <<given, calls, objects>>

\* The data thread delivers a femur sample.
ReceiveAtClock ==
    /\ Monitoring
    /\ LET sample == Sample(DEFAULT_FEMUR_ID, Pose(Meters(<<0, 0, 1>>), NoTurn))
       IN  /\ tracker' = [on_rigid_body_received(tracker, sample.rigid_body_id,
                                                 sample.position, sample.rotation)
                             EXCEPT !.last_data_received = threads.clock]
           /\ calls' = <<Call("on_rigid_body_received", sample, None, NoLocals)>>
    /\ UNCHANGED <<given, source, visualizer, threads>>

\* while self.running: update_connection_status()
MonitorTurn ==
    /\ Monitoring
    /\ threads.main = "while"
    /\ tracker.running
    /\ \E client_connected \in {"yes", "no", "raises"} :
          TrackerCalled("update_connection_status",
                        [current_time |-> threads.clock,
                         client_connected |-> client_connected],
                        update_connection_status(tracker, threads.clock,
                                                 client_connected))
    /\ threads' = [threads EXCEPT !.main = "sleep"]
    /\ UNCHANGED <<given, source, visualizer>>

\* time.sleep(0.1)
MonitorSleep ==
    /\ Monitoring
    /\ threads.main = "sleep"
    /\ threads' = [threads EXCEPT !.main = "while"]
    /\ UNCHANGED <<given, calls, objects>>

\* while self.running fails: connect_and_run returns True.
MonitorReturns ==
    /\ Monitoring
    /\ threads.main = "while"
    /\ ~tracker.running
    /\ threads' = [threads EXCEPT !.main = "returned"]
    /\ calls' = <<Call("connect_and_run", [client_run |-> TRUE],
                       [returned |-> TRUE], NoLocals)>>
    /\ UNCHANGED <<given, objects>>

MainThread == MonitorTurn \/ MonitorSleep \/ MonitorReturns

\* except KeyboardInterrupt
Interrupt ==
    /\ Monitoring
    /\ tracker' = [tracker EXCEPT !.running = FALSE]
    /\ threads' = [threads EXCEPT !.main = "returned"]
    /\ calls' = <<Call("connect_and_run", [client_run |-> TRUE],
                       [returned |-> TRUE], [interrupted |-> TRUE])>>
    /\ UNCHANGED <<given, source, visualizer>>

\* The lines typed while the connection is monitored.
MonitoredLines == {<<"q">>, <<"h">>, <<"t">>}

\* One turn of the loop of the keyboard thread, which leaves the loop
\* after 'q'.
KeyboardTurn ==
    /\ Monitoring
    /\ threads.keyboard = "while"
    /\ tracker.running
    /\ \E line \in MonitoredLines :
          /\ \E client_connected \in AnswersOf(line) :
                TrackerCalled("keyboard_input_handler",
                              [line |-> line, label_line |-> <<>>,
                               client_connected |-> client_connected,
                               file_opens |-> FALSE],
                              keyboard_input_handler(tracker, line, <<>>, source,
                                                     client_connected, FALSE))
          /\ threads' = [threads EXCEPT !.keyboard =
                            IF KeyOf(line) = <<"q">> THEN "ended" ELSE "while"]
    /\ UNCHANGED <<given, source, visualizer>>

\* except EOFError: break
EndOfInput ==
    /\ Monitoring
    /\ threads.keyboard = "while"
    /\ tracker.running
    /\ threads' = [threads EXCEPT !.keyboard = "ended"]
    /\ calls' = <<Call("keyboard_input_handler", [eof |-> TRUE], None, NoLocals)>>
    /\ UNCHANGED <<given, objects>>

\* while self.running fails in the keyboard thread.
KeyboardLeaves ==
    /\ tracker.keyboard_thread # None
    /\ threads.keyboard = "while"
    /\ ~tracker.running
    /\ threads' = [threads EXCEPT !.keyboard = "ended"]
    /\ UNCHANGED <<given, calls, objects>>

InitMonitoring ==
    /\ given \in [femur_id : {DEFAULT_FEMUR_ID}, stylus_id : {DEFAULT_STYLUS_ID},
                  class : {"SimpleRealtimeViz"}]
    /\ source = ExampleCatalog
    /\ tracker = RigidBodyTracker(given.femur_id, given.stylus_id)
    /\ visualizer = Visualizer(given.class, source)
    /\ threads = [clock |-> StartTime, main |-> "while", keyboard |-> "while"]
    /\ calls = <<>>

NextMonitoring ==
    \/ ConnectAndRun
    \/ Tick
    \/ ReceiveAtClock
    \/ MainThread
    \/ Interrupt
    \/ KeyboardTurn
    \/ EndOfInput
    \/ KeyboardLeaves

SpecMonitoring == InitMonitoring /\ [][NextMonitoring]_vars

\* The main thread is scheduled: a turn of its loop, its sleep and its
\* return happen when they can.
FairMonitoring == SpecMonitoring /\ WF_vars(MainThread)

\* ------------------------------------------------ the visualization loop

\* At most MaxLoops loop threads are started.
MaxLoops == 3

\* The RealtimeVisualizer with its thread attribute and the threads it has
\* started: thread is None or the number of a thread, loops gives each
\* thread started its place: "started" before setup_plot, "looping" inside
\* while self.running, "ended".
Started(self, thread, loops) == [self |-> self, thread |-> thread, loops |-> loops]

Alive(loops) == {k \in 1..Len(loops) : loops[k] # "ended"}

\* start_visualization()
start_visualization(self, thread, loops) ==
    IF self.running
    THEN Started(self, thread, loops)
    ELSE Started([self EXCEPT !.running = TRUE], Some(Len(loops) + 1),
                 Append(loops, "started"))

\* stop_visualization(): the thread of self.thread, which sees running
\* False at its next test, ends within the second join waits for it
\* (joined), or join returns while that thread is still alive.
stop_visualization(self, thread, loops, joined) ==
    Started([self EXCEPT !.running = FALSE], thread,
            IF thread # None /\ joined
            THEN [loops EXCEPT ![thread.value] = "ended"]
            ELSE loops)

\* toggle_visualization()
toggle_visualization(self, thread, loops, joined) ==
    IF self.running
    THEN stop_visualization(self, thread, loops, joined)
    ELSE start_visualization(self, thread, loops)

\* A caller has called a method of the visualizer that starts or stops the
\* loop.
LoopCalled(fn, args, out) ==
    /\ visualizer' = out.self
    /\ threads' = [thread |-> out.thread, loops |-> out.loops]
    /\ calls' = <<Call(fn, args, None, NoLocals)>>
    /\ UNCHANGED <<given, source, tracker>>

StartVisualization ==
    /\ Len(threads.loops) < MaxLoops
    /\ LoopCalled("start_visualization", <<>>,
                  start_visualization(visualizer, threads.thread, threads.loops))

StopVisualization ==
    \E joined \in BOOLEAN :
        LoopCalled("stop_visualization", [joined |-> joined],
                   stop_visualization(visualizer, threads.thread,
                                      threads.loops, joined))

ToggleVisualization ==
    /\ Len(threads.loops) < MaxLoops
    /\ \E joined \in BOOLEAN :
          LoopCalled("toggle_visualization", [joined |-> joined],
                     toggle_visualization(visualizer, threads.thread,
                                          threads.loops, joined))

\* visualization_loop of a thread: setup_plot() is done.
LoopSetUp ==
    /\ \E k \in 1..Len(threads.loops) :
          /\ threads.loops[k] = "started"
          /\ threads' = [threads EXCEPT !.loops[k] = "looping"]
    /\ UNCHANGED <<given, calls, source, tracker, visualizer>>

\* while self.running: the test fails and the thread ends.
LoopEnds ==
    /\ ~visualizer.running
    /\ \E k \in 1..Len(threads.loops) :
          /\ threads.loops[k] = "looping"
          /\ threads' = [threads EXCEPT !.loops[k] = "ended"]
    /\ UNCHANGED <<given, calls, source, tracker, visualizer>>

\* except Exception: setup_plot or update_plot raises in a thread, which
\* sets running to False and ends.
LoopRaises ==
    /\ \E k \in Alive(threads.loops) :
          /\ threads.loops[k] = "looping" => visualizer.running
          /\ threads' = [threads EXCEPT !.loops[k] = "ended"]
    /\ visualizer' = [visualizer EXCEPT !.running = FALSE]
    /\ UNCHANGED <<given, calls, source, tracker>>

InitVisualization ==
    /\ given \in [femur_id : {DEFAULT_FEMUR_ID}, stylus_id : {DEFAULT_STYLUS_ID},
                  class : {"RealtimeVisualizer"}]
    /\ source = ExampleCatalog
    /\ tracker = RigidBodyTracker(given.femur_id, given.stylus_id)
    /\ visualizer = Visualizer(given.class, source)
    /\ threads = [thread |-> None, loops |-> <<>>]
    /\ calls = <<>>

NextVisualization ==
    \/ StartVisualization
    \/ StopVisualization
    \/ ToggleVisualization
    \/ LoopSetUp
    \/ LoopEnds
    \/ LoopRaises

SpecVisualization == InitVisualization /\ [][NextVisualization]_vars

\* The routing of samples: trackers constructed with every pair of the ids
\* of BodyIds, the two being equal included, take samples, store points
\* and capture the reference.
BodyIds == {DEFAULT_FEMUR_ID, DEFAULT_STYLUS_ID}

InitRouting ==
    /\ given \in [femur_id : BodyIds, stylus_id : BodyIds,
                  class : {"SimpleRealtimeViz"}]
    /\ source = ExampleCatalog
    /\ tracker = RigidBodyTracker(given.femur_id, given.stylus_id)
    /\ visualizer = Visualizer(given.class, source)
    /\ threads = NotBuilt
    /\ calls = <<>>

\* The commands that store: a point, the reference.
KeyboardStore == Keyboard({<<"S">>, <<"r">>})

NextRouting ==
    \/ ConnectAndRun
    \/ ReceiveSample
    \/ KeyboardStore

SpecRouting == InitRouting /\ [][NextRouting]_vars

\* The landmarks: catalogs that hold some of the landmarks, in any order,
\* and the catalog of all twenty, handed femur poses.
MaxLandmarkRows == 4

\* The row of a landmark: the stylus position tells the landmarks apart.
LandmarkRow(letter, i) ==
    Row(<<letter>> \o Str(i), Cells(<<0, 0, 0>>), Cells(<<1, 0, 0, 0>>),
        Cells(IF letter = "L" THEN <<i, 0, 0>> ELSE <<0, i, 0>>))

LandmarkRows ==
    {LandmarkRow("L", 1), LandmarkRow("M", 1), LandmarkRow("M", 2),
     LandmarkRow("L", 3), LandmarkRow("M", 3)}

\* M10, L10, M9, L9, ... , M1, L1
FullCatalog ==
    File([k \in 1..20 |->
             LandmarkRow(IF k % 2 = 1 THEN "M" ELSE "L", 11 - ((k + 1) \div 2))])

LandmarkFiles ==
    {MissingFile, FullCatalog}
        \cup {File(rows) : rows \in
                 UNION {[1..n -> LandmarkRows] : n \in 0..MaxLandmarkRows}}

InitLandmarks == InitApplication(LandmarkFiles)

NextLandmarks ==
    \/ UpdateTrackerData
    \/ CallCalculateUpdatedPositions

SpecLandmarks == InitLandmarks /\ [][NextLandmarks]_vars

\* ----------------------------------------------------------------- claims

StylusMade ==
    /\ Len(calls) = 1
    /\ calls[1].fn = "calculate_updated_stylus_position"

MatrixMade ==
    /\ Len(calls) = 1
    /\ calls[1].fn = "quaternion_to_rotation_matrix"

\* The list of fractions that holds the integer vector v.
IntList(v) == <<Rat(v[1], 1), Rat(v[2], 1), Rat(v[3], 1)>>

ZeroQuaternion == <<0, 0, 0, 0>>

\* Fractions in lowest terms: difference and sum of products.
FracSub(p, q) == Rat(p[1] * q[2] - q[1] * p[2], p[2] * q[2])
FracSquare(p) == Rat(p[1] * p[1], p[2] * p[2])
FracAdd(p, q) == Rat(p[1] * q[2] + q[1] * p[2], p[2] * q[2])

\* The squared distance between two lists of fractions.
Dist2(u, v) ==
    FracAdd(FracAdd(FracSquare(FracSub(u[1], v[1])),
                    FracSquare(FracSub(u[2], v[2]))),
            FracSquare(FracSub(u[3], v[3])))

\* Two matrices are equal as matrices of fractions.
SameMatrix(A, B) ==
    \A i \in 1..3 : \A j \in 1..3 :
        A.num[i][j] * B.den = B.num[i][j] * A.den

\* C1. Identity reprojection: when the new pose is the reference pose and
\* the reference quaternion is not zero, calculate_updated_stylus_position
\* returns the reference stylus position.
C1_IdentityReprojection ==
    StylusMade =>
        LET a == calls[1].args
        IN  (/\ a.new_position = a.reference_position
             /\ a.new_rotation = a.reference_rotation
             /\ a.reference_rotation # ZeroQuaternion)
            => calls[1].ret = IntList(a.reference_stylus_pos)

\* An identity reprojection under an orientation whose matrix has entries
\* that are thirds, with the stylus away from the tracker.
C1_Witness ==
    /\ StylusMade
    /\ calls[1].args.new_position = calls[1].args.reference_position
    /\ calls[1].args.new_rotation = <<1, -1, 1, 0>>
    /\ calls[1].args.reference_rotation = <<1, -1, 1, 0>>
    /\ calls[1].args.reference_position = <<0, 1, 0>>
    /\ calls[1].args.reference_stylus_pos = <<-1, 0, 0>>
    /\ calls[1].ret = IntList(<<-1, 0, 0>>)

\* C2. Translation only: when the new orientation equals the reference
\* orientation, the result is the reference stylus position plus the
\* displacement of the tracker, new_position - reference_position.
C2_TranslationOnly ==
    StylusMade =>
        LET a == calls[1].args
        IN  a.new_rotation = a.reference_rotation
            => calls[1].ret =
                 IntList(IntVecAdd(a.reference_stylus_pos,
                            IntVecSub(a.new_position, a.reference_position)))

\* The documented example: reference [0,0,0] with [0,0,0,1], stylus
\* [10,0,0], new position [0,0,100], result [10,0,100].
C2_Witness ==
    /\ StylusMade
    /\ calls[1].args.reference_position = ExamplePosition
    /\ calls[1].args.reference_rotation = ExampleRotation
    /\ calls[1].args.reference_stylus_pos = ExampleStylusPos
    /\ calls[1].args.new_position = <<0, 0, 100>>
    /\ calls[1].args.new_rotation = ExampleRotation
    /\ calls[1].ret = IntList(<<10, 0, 100>>)

\* C3. Pure rotation about the tracker: when the new position is the
\* reference position and both quaternions are non-zero, the squared
\* distance from the new tracker position to the result equals the squared
\* distance from the reference position to the reference stylus position.
C3_PureRotationKeepsDistance ==
    StylusMade =>
        LET a == calls[1].args
        IN  (/\ a.new_position = a.reference_position
             /\ a.reference_rotation # ZeroQuaternion
             /\ a.new_rotation # ZeroQuaternion)
            => Dist2(calls[1].ret, IntList(a.new_position))
                 = Dist2(IntList(a.reference_stylus_pos),
                         IntList(a.reference_position))

\* A turn between two different orientations, neither of unit norm, that
\* moves the stylus to a point with fractional coordinates.
C3_Witness ==
    /\ StylusMade
    /\ calls[1].args.reference_rotation = <<1, 1, 0, 0>>
    /\ calls[1].args.new_rotation = <<0, 1, 1, -1>>
    /\ calls[1].args.new_position = calls[1].args.reference_position
    /\ calls[1].args.reference_position = <<1, 0, 0>>
    /\ calls[1].args.reference_stylus_pos = <<0, 0, -1>>
    /\ calls[1].ret # IntList(calls[1].args.reference_stylus_pos)
    /\ \E i \in 1..3 : calls[1].ret[i][2] = 3

\* k * [0, 0, 1, 1] for a non-zero integer k.
IsQuarterTurnAboutZ(q) ==
    /\ q[1] = 0
    /\ q[2] = 0
    /\ q[3] = q[4]
    /\ q[4] # 0

\* C4. Rotation direction: from the reference [0,0,0], [0,0,0,1] with the
\* stylus at [10,0,0], a new orientation proportional to [0,0,1,1] at the
\* new position [0,0,0] gives [0,10,0].
C4_RotationDirection ==
    StylusMade =>
        LET a == calls[1].args
        IN  (/\ a.reference_position = ExamplePosition
             /\ a.reference_rotation = ExampleRotation
             /\ a.reference_stylus_pos = ExampleStylusPos
             /\ a.new_position = ExamplePosition
             /\ IsQuarterTurnAboutZ(a.new_rotation))
            => calls[1].ret = IntList(<<0, 10, 0>>)

C4_Witness ==
    /\ StylusMade
    /\ calls[1].args.reference_position = ExamplePosition
    /\ calls[1].args.reference_rotation = ExampleRotation
    /\ calls[1].args.reference_stylus_pos = ExampleStylusPos
    /\ calls[1].args.new_position = ExamplePosition
    /\ calls[1].args.new_rotation = ExampleQuarterTurn
    /\ calls[1].ret = IntList(<<0, 10, 0>>)

\* The entry (i, j) of transpose(R) . R, as a numerator over R.den squared.
GramEntry(R, i, j) ==
    R.num[1][i] * R.num[1][j] + R.num[2][i] * R.num[2][j]
        + R.num[3][i] * R.num[3][j]

\* The determinant of R, as a numerator over R.den cubed.
DetNum(R) ==
    LET m == R.num
    IN  m[1][1] * (m[2][2] * m[3][3] - m[2][3] * m[3][2])
          - m[1][2] * (m[2][1] * m[3][3] - m[2][3] * m[3][1])
          + m[1][3] * (m[2][1] * m[3][2] - m[2][2] * m[3][1])

\* C5. Rotation orthonormality: for a non-zero quaternion the matrix R that
\* quaternion_to_rotation_matrix returns has transpose(R) . R = identity
\* and det(R) = 1.
C5_Orthonormal ==
    MatrixMade =>
        (calls[1].args.q # ZeroQuaternion
         => LET R == calls[1].ret
            IN  /\ \A i \in 1..3 : \A j \in 1..3 :
                     GramEntry(R, i, j)
                       = (IF i = j THEN R.den * R.den ELSE 0)
                /\ DetNum(R) = R.den * R.den * R.den)

\* A matrix with entries 2/3 and -1/3.
C5_Witness ==
    /\ MatrixMade
    /\ calls[1].args.q = <<1, 1, -1, 0>>
    /\ calls[1].ret.den = 3
    /\ calls[1].ret.num[1][2] = 2
    /\ calls[1].ret.num[1][1] = -1

\* C6. Zero-quaternion fallback: quaternion_to_rotation_matrix returns the
\* identity matrix for [0,0,0,0], and a reprojection whose reference and
\* new orientations are both zero returns
\* new_position + (reference_stylus_pos - reference_position).
C6_ZeroQuaternionFallback ==
    /\ MatrixMade =>
         (calls[1].args.q = ZeroQuaternion => calls[1].ret = Eye3)
    /\ StylusMade =>
         LET a == calls[1].args
         IN  (/\ a.reference_rotation = ZeroQuaternion
              /\ a.new_rotation = ZeroQuaternion)
             => /\ calls[1].locals.R_ref = Eye3
                /\ calls[1].locals.R_new = Eye3
                /\ calls[1].ret =
                     IntList(IntVecAdd(a.new_position,
                         IntVecSub(a.reference_stylus_pos,
                                   a.reference_position)))

C6_Witness ==
    /\ StylusMade
    /\ calls[1].args.reference_rotation = ZeroQuaternion
    /\ calls[1].args.new_rotation = ZeroQuaternion
    /\ calls[1].args.reference_position = <<0, 0, 1>>
    /\ calls[1].args.reference_stylus_pos = <<1, 0, 0>>
    /\ calls[1].args.new_position = <<0, 0, 2>>
    /\ calls[1].locals.R_new = Eye3
    /\ calls[1].ret = IntList(<<1, 0, 1>>)

\* C7. Scale and sign equivalence: when the new quaternion is k times the
\* non-zero reference quaternion, k a non-zero integer, the two rotation
\* matrices are equal, and with the new position equal to the reference
\* position the result is the reference stylus position.
C7_ScaleAndSignEquivalence ==
    StylusMade =>
        LET a == calls[1].args
        IN  (/\ a.reference_rotation # ZeroQuaternion
             /\ \E k \in Scalars :
                  a.new_rotation = Scaled(k, a.reference_rotation))
            => /\ SameMatrix(calls[1].locals.R_new, calls[1].locals.R_ref)
               /\ a.new_position = a.reference_position
                    => calls[1].ret = IntList(a.reference_stylus_pos)

\* The new quaternion is -2 times a reference quaternion of squared norm 3.
C7_Witness ==
    /\ StylusMade
    /\ calls[1].args.reference_rotation = <<1, 0, -1, 1>>
    /\ calls[1].args.new_rotation = <<-2, 0, 2, -2>>
    /\ calls[1].args.new_position = calls[1].args.reference_position
    /\ calls[1].args.reference_stylus_pos = <<0, 1, 0>>
    /\ calls[1].args.reference_position = <<-1, 0, 0>>
    /\ calls[1].locals.R_new.den = 12
    /\ calls[1].ret = IntList(<<0, 1, 0>>)

\* ---- units

\* The state after convert_to_millimeters and then convert_to_meters.
RoundTripMade ==
    /\ Len(calls) = 2
    /\ calls[1].fn = "convert_to_millimeters"
    /\ calls[2].fn = "convert_to_meters"

\* a and b are the same binary64 number or neighbours.
WithinOneUlp(a, b) == a = b \/ a = NextUp(b) \/ b = NextUp(a)

\* The product d * 1000 is itself a binary64 number.
ProductIsExact(d) ==
    \/ d.mant = ZeroMant
    \/ Product1000(d.mant)[4] % (2 ^ ExcessBits(Product1000(d.mant))) = 0

\* The integers among the components drawn.
IntRange == -MaxInt..MaxInt

\* C8 as stated: for every 3-vector v, convert_to_meters(
\* convert_to_millimeters(v)) equals v, and both conversions return a
\* vector of the input's length with each component scaled by 1000.
C8_RoundTripExact ==
    RoundTripMade =>
        /\ calls[2].ret = calls[1].args.position_meters
        /\ Len(calls[1].ret) = Len(calls[1].args.position_meters)

\* C8, amended: both conversions return a vector of the input's length;
\* convert_to_millimeters turns an integer n into 1000 * n and
\* convert_to_meters turns n into the binary64 number whose product with
\* 1000 is n again; convert_to_meters(convert_to_millimeters(v)) has every
\* component within one unit in the last place of v's, and equal to it
\* wherever the product with 1000 is a binary64 number (every integer,
\* every binary32 sample).
C8_RoundTripWithinOneUlp ==
    /\ \A k \in 1..Len(calls) :
          LET arg == IF calls[k].fn = "convert_to_millimeters"
                     THEN calls[k].args.position_meters
                     ELSE calls[k].args.position_millimeters
          IN  /\ Len(calls[k].ret) = Len(arg)
              /\ \A i \in 1..Len(arg) : \A n \in IntRange :
                    arg[i] = FromInt(n) =>
                        IF calls[k].fn = "convert_to_millimeters"
                        THEN calls[k].ret[i] = FromInt(1000 * n)
                        ELSE Times1000(calls[k].ret[i]) = FromInt(n)
    /\ RoundTripMade =>
          \A i \in 1..3 :
              LET v == calls[1].args.position_meters[i]
                  back == calls[2].ret[i]
              IN  /\ WithinOneUlp(back, v)
                  /\ ProductIsExact(v) => back = v

\* A round trip of [1.5 + 21 * 2^-52, 2, 1.5 + 2^-23]: the first component
\* comes back one unit in the last place higher, the other two unchanged.
C8_Witness ==
    /\ RoundTripMade
    /\ calls[1].args.position_meters
         = <<NearOneAndAHalf(21), FromInt(2), FloatNearOneAndAHalf(1)>>
    /\ calls[2].ret
         = <<NearOneAndAHalf(22), FromInt(2), FloatNearOneAndAHalf(1)>>
    /\ calls[1].ret[2] = FromInt(2000)

\* ---- position error

ErrorMade == calls # <<>> /\ calls[1].fn = "calculate_position_error"

ZeroMagnitude == NpSqrt(Rat(0, 1))

\* C9: calculate_position_error(a, b) and calculate_position_error(b, a)
\* return the same magnitude, and the magnitude is 0 if and only if a
\* equals b componentwise.
C9_MagnitudeSymmetry ==
    ErrorMade =>
        /\ \A k \in 1..Len(calls) :
              calls[k].ret.magnitude = ZeroMagnitude
                  <=> \A i \in 1..3 : calls[k].args.calculated_position[i]
                                          = calls[k].args.actual_position[i]
        /\ Len(calls) = 2 =>
              /\ calls[2].args.calculated_position
                     = calls[1].args.actual_position
              /\ calls[2].args.actual_position
                     = calls[1].args.calculated_position
              /\ calls[2].ret.magnitude = calls[1].ret.magnitude

\* Both orders have been called on two positions that differ on two axes
\* by opposite amounts.
C9_Witness ==
    /\ ErrorMade
    /\ Len(calls) = 2
    /\ calls[1].args.calculated_position = <<1, 0, 0>>
    /\ calls[1].args.actual_position = <<0, 1, 0>>
    /\ calls[1].ret.magnitude = NpSqrt(Rat(2, 1))

\* C10: calculate_position_error(computed, measured) returns x_error,
\* y_error, z_error equal to measured minus computed on each axis, and a
\* magnitude whose square is the sum of the squares of the three.
C10_MeasuredMinusComputed ==
    ErrorMade =>
        LET computed == calls[1].args.calculated_position
            measured == calls[1].args.actual_position
            ret == calls[1].ret
        IN  /\ ret.x_error = Rat(measured[1] - computed[1], 1)
            /\ ret.y_error = Rat(measured[2] - computed[2], 1)
            /\ ret.z_error = Rat(measured[3] - computed[3], 1)
            /\ ret.magnitude.square
                 = FracAdd(FracSquare(ret.x_error),
                           FracAdd(FracSquare(ret.y_error),
                                   FracSquare(ret.z_error)))

\* The computed position lies beyond the measured one on x and short of it
\* on y.
C10_Witness ==
    /\ ErrorMade
    /\ calls[1].args.calculated_position = <<1, 0, -1>>
    /\ calls[1].args.actual_position = <<0, 1, -1>>
    /\ calls[1].ret.x_error = Rat(-1, 1)
    /\ calls[1].ret.y_error = Rat(1, 1)
    /\ calls[1].ret.magnitude = NpSqrt(Rat(2, 1))

\* ------------------------------------------------------- the last call

\* The specifications of the application keep the record of the last call.
Last == calls[Len(calls)]

LastIs(fns) == calls # <<>> /\ Last.fn \in fns

\* The last call is a lookup of a label: by a caller of
\* calculate_mapped_point, by the 'p' command or by a caller of
\* calculate_point_position.
TrackerLookupMade ==
    \/ LastIs({"calculate_mapped_point"})
    \/ LastIs({"keyboard_input_handler"}) /\ KeyOf(Last.args.line) = <<"p">>

LookupMade == TrackerLookupMade \/ LastIs({"calculate_point_position"})

LookedUp ==
    IF Last.fn = "keyboard_input_handler"
    THEN str_upper(str_strip(Last.args.label_line))
    ELSE Last.args.point_label

\* Every cell of every row of the file is a number.
WellFormed(file) ==
    /\ file.exists
    /\ \A k \in 1..Len(file.rows) :
          /\ ~FloatsRaise(FemurPosCells(file.rows[k]))
          /\ ~FloatsRaise(FemurRotCells(file.rows[k]))
          /\ ~FloatsRaise(StylusPosCells(file.rows[k]))

RowsOf(file, label) ==
    {k \in 1..Len(file.rows) : file.rows[k].Point_Number = label}

\* The lookup had a current femur pose to work with.
PoseAtHand == TrackerLookupMade => ~NoFemurData(tracker)

\* The last call returned the position the calculator computed.
ReturnedComputedPosition ==
    /\ Last.ret # None
    /\ "calculated_position_mm" \in DOMAIN Last.ret
    /\ \E k \in 1..Len(Last.locals.calculator) :
          /\ Last.locals.calculator[k].fn = "calculate_updated_stylus_position"
          /\ Last.locals.calculator[k].ret = Last.ret.calculated_position_mm

\* ------------------------------------------------------------------ C11

Miss ==
    /\ LookupMade
    /\ PoseAtHand
    /\ WellFormed(source)
    /\ RowsOf(source, LookedUp) = {}

Hit ==
    /\ LookupMade
    /\ PoseAtHand
    /\ WellFormed(source)
    /\ RowsOf(source, LookedUp) # {}

\* C11: the lookup of a label that no row of a well-formed catalog file
\* carries returns None, raises nothing and changes neither the file nor
\* the tracker nor the visualizer; the lookup of a label of the file that
\* follows it returns the position computed for that label.
C11_CatalogMiss ==
    [][/\ Miss' => /\ Last'.ret = None
                   /\ UNCHANGED <<source, tracker, visualizer>>
       /\ Miss /\ Hit' => ReturnedComputedPosition']_vars

\* A label is missed in a well-formed file that holds another label.
C11_Witness ==
    /\ Miss
    /\ \E label \in Labels : RowsOf(source, label) # {}
    /\ LastIs({"calculate_point_position"})

\* ------------------------------------------------------------------ C12

\* Every position cell of every row of the file is a number.
PositionsWellFormed(file) ==
    /\ file.exists
    /\ \A k \in 1..Len(file.rows) :
          /\ ~FloatsRaise(FemurPosCells(file.rows[k]))
          /\ ~FloatsRaise(StylusPosCells(file.rows[k]))

\* load_reference_data of both classes, which reads positions and
\* rotations, leaves an empty mapping when the load fails.
ClassLoadersFailSoft ==
    LastIs({"load_reference_data"}) /\ ~WellFormed(source)
        => visualizer.reference_data = <<>>

\* The loader inside calculate_mapped_point, which reads the positions,
\* answers a failed load with None.
MappedPointLoaderFailsSoft ==
    TrackerLookupMade /\ ~PositionsWellFormed(source) => Last.ret = None

\* load_csv_data, which reads the positions, would return an empty mapping
\* when the load fails.
LoadCsvDataFailsSoft ==
    LastIs({"load_csv_data"}) /\ ~PositionsWellFormed(source)
        => Last.ret = [points |-> <<>>]

\* C12: a load from a missing file or from a file with a malformed row
\* raises nothing and leaves an empty mapping, in load_reference_data of
\* both classes, in calculate_mapped_point and in load_csv_data.
C12_FailSoftLoad ==
    /\ ClassLoadersFailSoft
    /\ MappedPointLoaderFailsSoft
    /\ LoadCsvDataFailsSoft

\* ------------------------------------------------------------------ C13

\* The last call is a lookup that has computed a position.
PositionComputed ==
    /\ LookupMade
    /\ Last.ret # None
    /\ "calculated_position_mm" \in DOMAIN Last.ret

\* The rotation of a catalog row in the order [x, y, z, w].
ScalarLast(row) ==
    <<row.Femur_Rot_X.value, row.Femur_Rot_Y.value, row.Femur_Rot_Z.value,
      row.Femur_Rot_W.value>>

\* C13: the reference rotation a lookup hands to the calculator is the
\* rotation of a row of the label with the catalog's W as fourth component
\* and the catalog's X as first.
C13_QuaternionReordered ==
    PositionComputed =>
        \A k \in 1..Len(Last.locals.calculator) :
            Last.locals.calculator[k].fn = "calculate_updated_stylus_position"
                => \E r \in RowsOf(source, LookedUp) :
                      Last.locals.calculator[k].args.reference_rotation
                          = ScalarLast(source.rows[r])

\* ------------------------------------------------------------------ C14

\* The last call is one of a caller of calculate_updated_stylus_position.
CallSiteMade ==
    LastIs({"keyboard_input_handler", "calculate_mapped_point",
            "calculate_point_position", "update_tracker_data",
            "calculate_updated_positions"})

\* The calls of calculate_updated_stylus_position the last call has made.
Reprojections ==
    IF CallSiteMade
    THEN {Last.locals.calculator[k] : k \in
             {j \in 1..Len(Last.locals.calculator) :
                 Last.locals.calculator[j].fn = "calculate_updated_stylus_position"}}
    ELSE {}

\* The femur position of the feed, in meters, the last call worked with.
FeedPosition ==
    CASE Last.fn = "calculate_point_position" ->
             Last.args.current_femur_pos_meters
      [] Last.fn = "update_tracker_data" -> Last.args.femur_pos_meters.value
      [] Last.fn = "calculate_updated_positions" ->
             Last.args.current_femur_pos_meters.value
      [] OTHER -> tracker.femur_position.value

\* A position of whole meters, in millimeters.
MillimetersOf(position_meters) ==
    [i \in 1..Len(position_meters) |-> 1000 * IntOf(position_meters[i])]

FeedMillimeters(poses) == {MillimetersOf(pose.position) : pose \in poses}

NumbersOf(cells) == [i \in 1..Len(cells) |-> cells[i].value]

\* The last call is the update calculation.
UpdateMade ==
    LastIs({"keyboard_input_handler"}) /\ KeyOf(Last.args.line) = <<"u">>

\* The stored reference is the pose of the feed in millimeters: when 'r'
\* has just stored it, it is the current pose times 1000.
ReferenceInMillimeters ==
    /\ tracker.reference_captured =>
          /\ Exact(tracker.reference_femur_position.value)
                 \in FeedMillimeters(FemurPoses)
          /\ Exact(tracker.reference_stylus_position.value)
                 \in FeedMillimeters(StylusPoses)
    /\ LastIs({"keyboard_input_handler"}) /\ KeyOf(Last.args.line) = <<"r">>
          /\ tracker.reference_captured =>
          /\ Exact(tracker.reference_femur_position.value)
                 = MillimetersOf(tracker.femur_position.value)
          /\ Exact(tracker.reference_stylus_position.value)
                 = MillimetersOf(tracker.stylus_position.value)

KeyMade(keys) ==
    LastIs({"keyboard_input_handler"}) /\ KeyOf(Last.args.line) \in keys

\* C15: a step leaves the log as it is or, when it is the store command,
\* puts one point behind the points the log held; the point at position k
\* has point_number k.
C15_AppendOnlyLog ==
    [][/\ \/ tracker'.captured_points = tracker.captured_points
          \/ /\ KeyMade({<<"s">>})'
             /\ Len(tracker'.captured_points) = Len(tracker.captured_points) + 1
             /\ SubSeq(tracker'.captured_points, 1, Len(tracker.captured_points))
                    = tracker.captured_points
       /\ \A k \in 1..Len(tracker'.captured_points) :
              tracker'.captured_points[k].point_number = k]_vars

\* The log holds two points that differ and has been exported.
C15_Witness ==
    /\ Len(tracker.captured_points) >= 2
    /\ tracker.captured_points[1].femur_position
           # tracker.captured_points[2].femur_position
    /\ KeyMade({<<"e">>})
    /\ Last.locals.printed.heading = "DATA EXPORTED"

\* ------------------------------------------------------------------ C16

\* The poses a captured point holds.
Snapshot(point) ==
    <<point.femur_position, point.femur_rotation,
      point.stylus_position, point.stylus_rotation>>

\* C16: the point a store appends holds the poses the tracker holds at
\* that moment, the positions times 1000, and a step changes the poses of
\* no point of the log.
C16_CapturedPointsAreSnapshots ==
    [][/\ \A k \in 1..Len(tracker.captured_points) :
              /\ k <= Len(tracker'.captured_points)
              /\ Snapshot(tracker'.captured_points[k])
                     = Snapshot(tracker.captured_points[k])
       /\ Len(tracker'.captured_points) > Len(tracker.captured_points) =>
              LET point == tracker'.captured_points[Len(tracker'.captured_points)]
              IN  /\ Exact(point.femur_position)
                         = MillimetersOf(tracker.femur_position.value)
                  /\ point.femur_rotation = tracker.femur_rotation.value
                  /\ Exact(point.stylus_position)
                         = MillimetersOf(tracker.stylus_position.value)
                  /\ point.stylus_rotation = tracker.stylus_rotation.value]_vars

\* A femur sample has arrived after a store and the pose of the tracker
\* is no longer the pose of the stored point.
C16_Witness ==
    /\ LastIs({"on_rigid_body_received"})
    /\ Len(tracker.captured_points) >= 1
    /\ tracker.captured_points[1].femur_rotation # tracker.femur_rotation.value
    /\ Exact(tracker.captured_points[1].femur_position)
           # MillimetersOf(tracker.femur_position.value)

\* ------------------------------------------------------------------ C20

\* What the computations must leave alone.
PosesReferenceAndLog(self) ==
    <<self.femur_position, self.femur_rotation, self.stylus_position,
      self.stylus_rotation, self.reference_femur_position,
      self.reference_femur_rotation, self.reference_stylus_position,
      self.reference_stylus_rotation, self.reference_captured,
      self.captured_points>>

\* C20: a step of 'u' or 'p' leaves the poses, the reference, its flag and
\* the log as they are, and when it repeats the command of the step before
\* it, it prints and returns what that step did.
C20_ComputationsKeepState ==
    [][KeyMade({<<"u">>, <<"p">>})' =>
          /\ PosesReferenceAndLog(tracker') = PosesReferenceAndLog(tracker)
          /\ KeyMade({<<"u">>, <<"p">>}) /\ Last'.args = Last.args =>
                 /\ Last'.ret = Last.ret
                 /\ Last'.locals.printed = Last.locals.printed]_vars

\* The update calculation has been made with its error analysis, on a
\* tracker that holds a reference and a captured point.
C20_Witness ==
    /\ KeyMade({<<"u">>})
    /\ Last.locals.printed.heading = "UPDATED STYLUS POSITION"
    /\ Last.locals.printed.error_analysis # None
    /\ tracker.captured_points # <<>>

\* ------------------------------------------------------------------ C17

\* The rotation of a catalog row as the file holds it, W first.
ScalarFirst(row) == NumbersOf(FemurRotCells(row))

\* C17: the reference position, the reference rotation and the reference
\* stylus position a lookup hands to the calculator are those of one row
\* that carries the label.
C17_OneRowPerLabel ==
    PositionComputed =>
        \A call \in Reprojections :
            \E r \in RowsOf(source, LookedUp) :
                /\ call.args.reference_position
                       = NumbersOf(FemurPosCells(source.rows[r]))
                /\ call.args.reference_rotation = ScalarFirst(source.rows[r])
                /\ call.args.reference_stylus_pos
                       = NumbersOf(StylusPosCells(source.rows[r]))

\* ------------------------------------------------------------------ C18

\* The last call is a lookup by a caller, with the label as the caller
\* gives it.
DirectLookupMade ==
    LastIs({"calculate_mapped_point", "calculate_point_position"})

\* The last call is the 'p' command with the line typed for the label.
Typed(label_line) ==
    KeyMade({<<"p">>}) /\ Last.args.label_line = label_line

\* C18: on a well-formed file a caller's lookup finds the label exactly
\* when a row carries the very label, and reports 'Point not found'
\* otherwise; 'p' with "l3" typed finds the label exactly when a row
\* carries "L3", and with " M3" typed when a row carries "M3".
C18_LabelMatching ==
    /\ DirectLookupMade /\ PoseAtHand /\ WellFormed(source) =>
          IF RowsOf(source, Last.args.point_label) # {}
          THEN ReturnedComputedPosition
          ELSE /\ Last.ret = None
               /\ Last.locals.printed.message = "Point not found"
    /\ Typed(<<"l", "3">>) /\ PoseAtHand /\ WellFormed(source) =>
          (ReturnedComputedPosition <=> RowsOf(source, <<"L", "3">>) # {})
    /\ Typed(<<" ", "M", "3">>) /\ PoseAtHand /\ WellFormed(source) =>
          (ReturnedComputedPosition <=> RowsOf(source, <<"M", "3">>) # {})

\* 'p' with "l3" typed has found the row labelled "L3".
C18_Witness ==
    /\ Typed(<<"l", "3">>)
    /\ ReturnedComputedPosition
    /\ Last.ret.point_label = <<"L", "3">>

\* ------------------------------------------------------------------ C19

\* The entry of a catalog row.
EntryOf(row) ==
    [femur_pos |-> NumbersOf(FemurPosCells(row)),
     femur_rot |-> NumbersOf(FemurRotCells(row)),
     stylus_pos |-> NumbersOf(StylusPosCells(row))]

\* The last call is a load of the file by the visualizer.
LoadMade == LastIs({"load_reference_data"})

\* C19: after load_reference_data has run again the catalog holds the
\* labels of the file it has read, each with the entry of the last row
\* that carries it, when every row parses, and nothing otherwise.
C19_ReloadReplaces ==
    LoadMade =>
        IF WellFormed(source)
        THEN /\ DOMAIN visualizer.reference_data
                    = {source.rows[k].Point_Number : k \in 1..Len(source.rows)}
             /\ \A label \in DOMAIN visualizer.reference_data :
                    \E r \in RowsOf(source, label) :
                        /\ \A later \in RowsOf(source, label) : later <= r
                        /\ visualizer.reference_data[label]
                               = EntryOf(source.rows[r])
        ELSE visualizer.reference_data = <<>>

\* A load that succeeds has dropped a label the catalog held before it.
C19_Witness ==
    /\ LoadMade
    /\ LabelM3 \in DOMAIN Last.args.self.reference_data
    /\ DOMAIN visualizer.reference_data = {LabelL3}

\* A load that fails has emptied a catalog that held entries.
C19_WitnessFailedLoad ==
    /\ LoadMade
    /\ Last.args.self.reference_data # <<>>
    /\ ~WellFormed(source)
    /\ visualizer.reference_data = <<>>

\* ------------------------------------------------------------------ C24

\* The last call is a command that printed the heading.
Printed(keys, heading) ==
    KeyMade(keys) /\ Last.locals.printed.heading = heading

\* C24: a store command given while the femur or the stylus has sent no
\* sample leaves the tracker, the file and the visualizer as they are and
\* reports the error; every other store command puts one point behind the
\* log, whose number is the number of points the log held plus one.
C24_StoreRejectsIncompleteData ==
    [][KeyMade({<<"s">>})' =>
          IF ~tracker.femur_data_received \/ ~tracker.stylus_data_received
          THEN /\ UNCHANGED <<tracker, source, visualizer>>
               /\ Last'.locals.printed.heading = "ERROR"
               /\ Last'.locals.calculator = <<>>
          ELSE /\ Len(tracker'.captured_points)
                      = Len(tracker.captured_points) + 1
               /\ tracker'.captured_points[Len(tracker'.captured_points)].point_number
                      = IF tracker.captured_points = <<>>
                        THEN 1
                        ELSE tracker.captured_points[Len(tracker.captured_points)].point_number + 1]_vars

\* A store command has been rejected for want of a stylus sample, the
\* femur pose being there.
C24_Witness ==
    /\ Printed({<<"s">>}, "ERROR")
    /\ tracker.femur_data_received
    /\ ~tracker.stylus_data_received
    /\ tracker.captured_points = <<>>

\* ------------------------------------------------------------------ C25

\* The reference and its flag.
ReferenceOf(self) ==
    <<self.reference_femur_position, self.reference_femur_rotation,
      self.reference_stylus_position, self.reference_stylus_rotation,
      self.reference_captured>>

\* C25: the reference and its flag change only in a step of the reference
\* command that succeeds, so the stored reference is the one of the last
\* capture that succeeded; the update command calls the calculator exactly
\* when the flag is set and a femur sample is there, with the stored
\* reference and the current femur pose, and otherwise reports an error
\* and makes no calculator call.
C25_ReferenceBeforeUpdate ==
    [][/\ ReferenceOf(tracker') # ReferenceOf(tracker) =>
              Printed({<<"r">>}, "REFERENCE CAPTURED")'
       /\ UpdateMade' =>
              IF tracker.reference_captured /\ tracker.femur_data_received
              THEN /\ Cardinality(Reprojections') = 1
                   /\ \A made \in Reprojections' :
                         /\ made.args.reference_position
                                = Exact(tracker.reference_femur_position.value)
                         /\ made.args.reference_rotation
                                = tracker.reference_femur_rotation.value
                         /\ made.args.reference_stylus_pos
                                = Exact(tracker.reference_stylus_position.value)
                         /\ made.args.new_position
                                = MillimetersOf(tracker.femur_position.value)
                         /\ made.args.new_rotation = tracker.femur_rotation.value
              ELSE /\ Last'.locals.printed.heading = "ERROR"
                   /\ Last'.locals.calculator = <<>>
                   /\ Last'.ret = None]_vars

\* The update calculation has been made on a reference that is not the
\* current pose: the femur has moved since the capture.
C25_Witness ==
    /\ Printed({<<"u">>}, "UPDATED STYLUS POSITION")
    /\ Exact(tracker.reference_femur_position.value)
           # MillimetersOf(tracker.femur_position.value)
    /\ tracker.reference_femur_rotation # tracker.femur_rotation

\* ------------------------------------------------------------------ C23

\* The last call is the delivery of a sample.
SampleMade == LastIs({"on_rigid_body_received"})

\* C23: the flag of the reference is set exactly when its four fields are;
\* a reference command given while the femur or the stylus has sent no
\* sample leaves the reference and its flag as they are; and so does the
\* delivery of a sample.
C23_ReferenceAllOrNothing ==
    /\ [](/\ tracker.reference_captured <=>
                 /\ tracker.reference_femur_position # None
                 /\ tracker.reference_femur_rotation # None
                 /\ tracker.reference_stylus_position # None
                 /\ tracker.reference_stylus_rotation # None
          /\ ~tracker.reference_captured =>
                 ReferenceOf(tracker)
                     = ReferenceOf(RigidBodyTracker(tracker.femur_id,
                                                    tracker.stylus_id)))
    /\ [][/\ KeyMade({<<"r">>})'
                 /\ (~tracker.femur_data_received
                       \/ ~tracker.stylus_data_received) =>
                 /\ ReferenceOf(tracker') = ReferenceOf(tracker)
                 /\ Last'.locals.printed.heading = "ERROR"
          /\ SampleMade' => ReferenceOf(tracker') = ReferenceOf(tracker)]_vars

\* A sample has moved the femur away from the captured reference.
C23_Witness ==
    /\ SampleMade
    /\ Last.args.rigid_body_id = tracker.femur_id
    /\ tracker.reference_captured
    /\ tracker.reference_femur_rotation # tracker.femur_rotation

\* A reference command has been rejected for want of a stylus sample.
C23_WitnessRejected ==
    /\ Printed({<<"r">>}, "ERROR")
    /\ tracker.femur_data_received
    /\ ~tracker.reference_captured

\* ------------------------------------------------------------------ C26

\* The tracker after a sample that is taken as the pose of one body.
Routed(self, position_field, rotation_field, flag_field, sample) ==
    [self EXCEPT ![position_field] = Some(sample.position),
                 ![rotation_field] = Some(sample.rotation),
                 ![flag_field] = TRUE]

\* The tracker but for the time of the last sample.
ButLastDataReceived(self) == [self EXCEPT !.last_data_received = 0]

\* C26: but for last_data_received, the delivery of a sample changes the
\* femur position, rotation and flag when its id is femur_id, the stylus
\* position, rotation and flag when its id is stylus_id and not femur_id,
\* and nothing when its id is neither; the reference, the log and every
\* other field are as they were.
C26_SampleRouting ==
    [][SampleMade' =>
          /\ ButLastDataReceived(tracker') =
                ButLastDataReceived(
                    IF Last'.args.rigid_body_id = tracker.femur_id
                    THEN Routed(tracker, "femur_position", "femur_rotation",
                                "femur_data_received", Last'.args)
                    ELSE IF Last'.args.rigid_body_id = tracker.stylus_id
                    THEN Routed(tracker, "stylus_position", "stylus_rotation",
                                "stylus_data_received", Last'.args)
                    ELSE tracker)
          /\ tracker'.last_data_received > 0
          /\ UNCHANGED <<source, visualizer>>]_vars

\* A stylus sample has arrived at a tracker that holds a reference and a
\* stored point, and has moved the stylus away from the reference.
C26_Witness ==
    /\ SampleMade
    /\ Last.args.rigid_body_id = tracker.stylus_id
    /\ tracker.stylus_id # tracker.femur_id
    /\ tracker.reference_captured
    /\ tracker.captured_points # <<>>
    /\ Exact(tracker.reference_stylus_position.value)
           # MillimetersOf(tracker.stylus_position.value)

\* A sample has arrived at a tracker whose two ids are the same: it is the
\* femur's.
C26_WitnessSameId ==
    /\ SampleMade
    /\ tracker.stylus_id = tracker.femur_id
    /\ Last.args.rigid_body_id = tracker.femur_id
    /\ tracker.femur_data_received

\* A sample of a body that is neither has arrived.
C26_WitnessOtherId ==
    /\ SampleMade
    /\ Last.args.rigid_body_id \notin {tracker.femur_id, tracker.stylus_id}
    /\ tracker.femur_data_received

\* ------------------------------------------------------------------ C27

\* The last call is a pairing of the landmarks at a femur pose.
PairingMade ==
    /\ LastIs({"update_tracker_data", "calculate_updated_positions"})
    /\ Last.locals.calculator # <<>>

\* The labels of the rows of the file.
LabelsOf(file) == {file.rows[k].Point_Number : k \in 1..Len(file.rows)}

\* The indices whose two landmarks are both in the file.
Paired(file) ==
    {i \in 1..10 : /\ <<"L">> \o Str(i) \in LabelsOf(file)
                   /\ <<"M">> \o Str(i) \in LabelsOf(file)}

\* The k-th index of a set of indices, in ascending order.
Nth(indices, k) ==
    CHOOSE i \in indices : Cardinality({j \in indices : j < i}) = k - 1

\* The positions the last call has handed out: the L list and the M list,
\* and for calculate_planes the labels of the planes.
LPositions ==
    IF Last.fn = "update_tracker_data"
    THEN [k \in 1..Len(visualizer.calculated_planes.value) |->
             visualizer.calculated_planes.value[k].l_pos]
    ELSE Last.ret.l_positions.value

MPositions ==
    IF Last.fn = "update_tracker_data"
    THEN [k \in 1..Len(visualizer.calculated_planes.value) |->
             visualizer.calculated_planes.value[k].m_pos]
    ELSE Last.ret.m_positions.value

\* C27: a pairing hands out an L list and an M list of the same length, one
\* place for each index of 1..10 whose L and M landmark are both in the
\* file, in ascending order of the index; place k of the L list is the
\* reprojection of the stylus position of that L landmark and place k of
\* the M list the one of its M partner; a file without rows, or no file,
\* gives two empty lists.
C27_LandmarkPairing ==
    PairingMade =>
        /\ Len(LPositions) = Cardinality(Paired(source))
        /\ Len(MPositions) = Len(LPositions)
        /\ Len(LPositions) <= 10
        /\ Len(Last.locals.calculator) = 1 + 2 * Len(LPositions)
        /\ \A k \in 1..Len(LPositions) :
              LET i == Nth(Paired(source), k)
                  l == Last.locals.calculator[2 * k]
                  m == Last.locals.calculator[2 * k + 1]
              IN  /\ l.args.reference_stylus_pos
                         = visualizer.reference_data[<<"L">> \o Str(i)].stylus_pos
                  /\ m.args.reference_stylus_pos
                         = visualizer.reference_data[<<"M">> \o Str(i)].stylus_pos
                  /\ l.args.reference_stylus_pos = <<i, 0, 0>>
                  /\ m.args.reference_stylus_pos = <<0, i, 0>>
                  /\ LPositions[k] = l.ret
                  /\ MPositions[k] = m.ret
                  /\ Last.fn = "update_tracker_data" =>
                         visualizer.calculated_planes.value[k].label
                             = <<"L">> \o Str(i) \o <<"-", "M">> \o Str(i)
        /\ (~source.exists \/ source.rows = <<>>) => LPositions = <<>>

\* Pairs 1 and 3 have been computed from a file that lists landmark 3
\* before landmark 1 and holds M2 without L2.
C27_Witness ==
    /\ PairingMade
    /\ Paired(source) = {1, 3}
    /\ Len(source.rows) = 4
    /\ source.rows[1].Point_Number = <<"M">> \o Str(3)
    /\ Len(MPositions) = 2
    /\ LPositions[1] # LPositions[2]

\* All ten pairs have been computed.
C27_WitnessFull ==
    /\ PairingMade
    /\ Len(LPositions) = 10

\* A pairing has been made on an empty catalog.
C27_WitnessEmpty ==
    /\ PairingMade
    /\ visualizer.reference_data = <<>>
    /\ MPositions = <<>>

\* ------------------------------------------------------------------ C21

\* The last call is a command that has read the femur pose.
PoseRead ==
    /\ KeyMade({<<"s">>, <<"r">>, <<"u">>, <<"p">>})
    /\ Last.locals.calculator # <<>>

\* The femur position the command has worked with, in millimeters: the
\* first conversion of each of the four commands is the one of
\* self.femur_position.
PositionUsed == Exact(Last.locals.calculator[1].ret)

\* The femur rotation the command has worked with: the one it has stored in
\* the point or in the reference, or handed to the calculator.
RotationUsed ==
    CASE KeyOf(Last.args.line) = <<"s">> ->
             Last.locals.printed.point.femur_rotation
      [] KeyOf(Last.args.line) = <<"r">> ->
             tracker.reference_femur_rotation.value
      [] OTHER -> Last.locals.calculator[2].args.new_rotation

\* The poses of the femur samples, positions in millimeters.
FeedPoses ==
    {<<MillimetersOf(pose.position), pose.rotation>> : pose \in FemurPoses}

\* C21: the femur position and the femur rotation a command works with are
\* those of one sample.
C21_NoTornPose == PoseRead => <<PositionUsed, RotationUsed>> \in FeedPoses

\* ------------------------------------------------------------------ C22

FlagsImplyData(self) ==
    /\ self.femur_data_received =>
          self.femur_position # None /\ self.femur_rotation # None
    /\ self.stylus_data_received =>
          self.stylus_position # None /\ self.stylus_rotation # None

\* C22: in every state, between the statements of the callback and of a
\* command included, a flag that is set has its position and its rotation
\* set; a flag that is set stays set.
C22_FlagsImplyData ==
    /\ [](FlagsImplyData(tracker))
    /\ [][/\ tracker.femur_data_received => tracker'.femur_data_received
          /\ tracker.stylus_data_received => tracker'.stylus_data_received]_vars

\* The callback stands before line 168 with the first stylus sample, the
\* position and the rotation written and the flag not yet set, while a
\* command of the keyboard thread is under way.
C22_Witness ==
    /\ threads.data # Idle
    /\ threads.data.at = 168
    /\ tracker.stylus_position # None
    /\ tracker.stylus_rotation # None
    /\ ~tracker.stylus_data_received
    /\ tracker.femur_data_received
    /\ threads.keyboard # Idle

\* ------------------------------------------------------------------ C28

\* C28: at most one thread started by start_visualization is alive.
C28_SingleVisualizationLoop == Cardinality(Alive(threads.loops)) <= 1

\* ------------------------------------------------------------------ C29

KeyboardEnded == threads.keyboard = "ended"

\* C29: once the keyboard thread has left its loop connect_and_run
\* eventually returns, and no command is processed after the thread has
\* left its loop.
C29_ShutdownLiveness ==
    /\ KeyboardEnded ~> Returned
    /\ [][KeyboardEnded =>
             \/ calls' = calls
             \/ calls'[1].fn # "keyboard_input_handler"]_vars

\* After 'q', which sets running to False, connect_and_run returns.
QuitLeadsToReturn == (KeyboardEnded /\ ~tracker.running) ~> Returned

\* ------------------------------------------------------------------ C30

\* The time of the last sample, or of the connection when none has come.
LastHeard ==
    IF tracker.last_data_received = 0
    THEN StartTime
    ELSE tracker.last_data_received

\* update_connection_status is called and the client reports connected.
StatusUpdated ==
    /\ calls' # calls
    /\ calls'[1].fn = "update_connection_status"
    /\ calls'[1].args.client_connected = "yes"

\* C30: while the client reports connected, update_connection_status sets
\* connected to False or prints CONNECTION LOST only when
\* CONNECTION_TIMEOUT seconds have passed since the last sample, or since
\* the connection when no sample has come.
C30_NoPrematureDisconnect ==
    [][StatusUpdated
       /\ \/ tracker.connected /\ ~tracker'.connected
          \/ calls'[1].locals.printed.heading = "CONNECTION LOST"
       => threads.clock - LastHeard >= CONNECTION_TIMEOUT]_vars

\* Once a sample has come, connected is not set to False and CONNECTION
\* LOST is not printed before CONNECTION_TIMEOUT seconds have passed since
\* the last sample.
DisconnectAfterSilence ==
    [][StatusUpdated
       /\ tracker.last_data_received # 0
       /\ \/ tracker.connected /\ ~tracker'.connected
          \/ calls'[1].locals.printed.heading = "CONNECTION LOST"
       => threads.clock - tracker.last_data_received > CONNECTION_TIMEOUT]_vars

====
